---- MODULE Spec2Model ----
(***************************************************************************)
(* WebPGP: the master-password vault (src/lib/storage.ts), the key store   *)
(* kept by the Home component (src/app/page.tsx) and the import and        *)
(* generate flows of KeyManagement that feed it.                           *)
(*                                                                         *)
(* Every text the program handles (armored keys, armored messages, the     *)
(* verifier marker, unreadable bytes) is a record with a "kind" field, so  *)
(* that parsing and decrypting are computed and can fail.                  *)
(***************************************************************************)
EXTENDS Integers, Sequences, FiniteSets, TLC

VARIABLES
    verifier,                 \* localStorage[MASTER_PASSWORD_VERIFIER_KEY]
    stored,                   \* localStorage[STORAGE_KEY]
    keys,                     \* Home: useState<PGPKey[]>
    isAppLocked,              \* Home: useState<boolean>
    masterPassword,           \* Home: useState<string | null>
    showMasterPasswordModal,  \* Home: useState<boolean>
    tasks,                    \* async handlers suspended at an await
    signMessage,              \* SignMessage: its useState fields
    decryptMessage,           \* DecryptMessage: its useState fields
    keyManagement,            \* KeyManagement: its useState fields
    event                     \* what the last handler step did (observation)

vars == <<verifier, stored, keys, isAppLocked, masterPassword,
          showMasterPasswordModal, tasks, signMessage, decryptMessage,
          keyManagement, event>>

session == <<keys, isAppLocked, masterPassword, showMasterPasswordModal, tasks>>

components == <<signMessage, decryptMessage, keyManagement>>

-----------------------------------------------------------------------------
(* Bounds *)

NumIds == 2
MaxInFlight == 2
MaxStored == 2

KeyIds == 1..NumIds
Passwords == {"w1", "w2"}
Nonces == {0, 1}

-----------------------------------------------------------------------------
(* Texts *)

NoPassword == "null"
Null == [kind |-> "null"]
Garbage == [kind |-> "garbage"]
OtherText == [kind |-> "text", s |-> "something_else"]
VERIFIER_PLAINTEXT == [kind |-> "text", s |-> "master_password_correct"]

ArmoredKey(i, p) == [kind |-> "key", id |-> i, priv |-> p]
ArmoredKeys == {ArmoredKey(i, p) : i \in KeyIds, p \in BOOLEAN}

\* An armored private key whose secret material is locked by a passphrase.
Passphrases == {"p1", "p2"}
ProtectedKey(i, passphrase) ==
    [kind |-> "key", id |-> i, priv |-> TRUE, pass |-> passphrase]
IsProtected(text) == "pass" \in DOMAIN text

\* The texts a user signs or finds inside a message; "" is the empty field.
Plaintexts == {"m1"}

Ok(x) == [ok |-> TRUE, data |-> x, err |-> "none"]
Fail(e) == [ok |-> FALSE, data |-> Null, err |-> e]

-----------------------------------------------------------------------------
(* CryptoEngine (openpgp): the black box of the specification, section 6.  *)
(* An engine error is "passphrase" when its message would match the tests  *)
(* the callers make ('password', 'Passphrase'), "parse" otherwise.         *)

\* symmetricWrap: a fresh nonce per call, so two wraps of one text differ.
EngineEncrypt(plaintext, password, nonce) ==
    [kind |-> "msg", pt |-> plaintext, pw |-> password, nonce |-> nonce]

\* readMessage: only an armored message parses.
EngineReadMessage(text) ==
    IF text.kind = "msg" THEN Ok(text) ELSE Fail("parse")

\* symmetricUnwrap: plaintext | WrongPassword | CorruptData.
EngineDecrypt(message, password) ==
    IF message.pw = password THEN Ok(message.pt) ELSE Fail("passphrase")

\* parsePublic: any armored key block, public or private, parses.
EngineReadKey(text) ==
    IF text.kind = "key" THEN Ok(text) ELSE Fail("parse")

\* parsePrivate: only an armored private key block parses.
EngineReadPrivateKey(text) ==
    IF text.kind = "key" /\ text.priv THEN Ok(text) ELSE Fail("parse")

\* readPrivateKey({armoredKey, passphrase}) as KeyManagement calls it: a
\* locked key read without a passphrase fails with a message that says
\* "encrypted", with the right passphrase it is returned unlocked.
EngineReadPrivateKeyWith(text, passphrase) ==
    IF ~(text.kind = "key" /\ text.priv) THEN Fail("parse")
    ELSE IF ~IsProtected(text) THEN Ok(text)
    ELSE IF passphrase = NoPassword THEN Fail("encrypted")
    ELSE IF text.pass = passphrase THEN Ok(ArmoredKey(text.id, TRUE))
    ELSE Fail("passphrase")

\* isLocked is the negation of keyObject.isDecrypted().
EngineIsDecrypted(keyObject) == ~IsProtected(keyObject)

\* unlock: PrivateIdentity | WrongPassphrase.
EngineDecryptKey(keyObject, passphrase) ==
    IF ~IsProtected(keyObject) THEN Fail("already decrypted")
    ELSE IF keyObject.pass = passphrase THEN Ok(ArmoredKey(keyObject.id, TRUE))
    ELSE Fail("passphrase")

\* sign: Signature | OperationFailure; "engineFails" is the engine throwing.
EngineSign(text, keyObject, mode, engineFails) ==
    IF engineFails \/ IsProtected(keyObject) THEN Fail("sign")
    ELSE Ok([kind |-> "signature", text |-> text, signer |-> keyObject.id,
             mode |-> mode])

-----------------------------------------------------------------------------
(* src/lib/storage.ts *)

hasMasterPassword(v) == v # Null

\* encryptData: "engineFails" is the engine throwing; the function rethrows.
encryptData(plaintext, password, nonce, engineFails) ==
    IF engineFails THEN Fail("EncryptFailed")
    ELSE Ok(EngineEncrypt(plaintext, password, nonce))

\* decryptData without the test on the failure's message.
MutDecryptData_NoClass(encryptedArmored, password) ==
    LET m == EngineReadMessage(encryptedArmored) IN
    IF ~m.ok THEN Fail("DecryptFailed")
    ELSE LET d == EngineDecrypt(m.data, password) IN
         IF d.ok THEN Ok(d.data) ELSE Fail("DecryptFailed")

\* decryptData: a failure whose message names the password is rethrown as
\* "WrongPassword", any other failure as "DecryptFailed".
decryptData(encryptedArmored, password) ==
    LET m == EngineReadMessage(encryptedArmored) IN
    IF ~m.ok THEN Fail("DecryptFailed")
    ELSE LET d == EngineDecrypt(m.data, password) IN
         IF d.ok THEN Ok(d.data)
         ELSE IF d.err = "passphrase" THEN Fail("WrongPassword")
         ELSE Fail("DecryptFailed")

\* setMasterPassword wrapping the password in place of the marker.
MutSetMasterPassword_StorePassword(password, nonce, engineFails) ==
    encryptData([kind |-> "text", s |-> password], password, nonce, engineFails)

\* setMasterPassword: the value written to the verifier entry, or the throw.
setMasterPassword(password, nonce, engineFails) ==
    LET e == encryptData(VERIFIER_PLAINTEXT, password, nonce, engineFails) IN
    IF e.ok THEN e ELSE Fail("SetVerifierFailed")

\* verifyMasterPassword without the comparison to the marker.
MutVerify_NoCompare(v, password) ==
    IF ~hasMasterPassword(v) THEN [threw |-> FALSE, value |-> FALSE]
    ELSE [threw |-> FALSE, value |-> decryptData(v, password).ok]

\* verifyMasterPassword: the try/catch turns every failure into false.
verifyMasterPassword(v, password) ==
    IF ~hasMasterPassword(v) THEN [threw |-> FALSE, value |-> FALSE]
    ELSE LET d == decryptData(v, password) IN
         IF d.ok THEN [threw |-> FALSE, value |-> d.data = VERIFIER_PLAINTEXT]
         ELSE [threw |-> FALSE, value |-> FALSE]

-----------------------------------------------------------------------------
(* Key records *)

\* PGPKey (src/types/index.ts): keyObject is the parse of "armored".
PGPKey(armored, keyObject) ==
    [keyId |-> keyObject.id, armored |-> armored, keyObject |-> keyObject,
     isPrivate |-> keyObject.priv]

\* StoredKey (src/types/index.ts), and an array element that is not one.
StoredKey(id, type, data) == [kind |-> "entry", keyId |-> id, type |-> type, data |-> data]
InvalidEntry == [kind |-> "invalid"]

StoredArray(items) == [kind |-> "array", items |-> items]

Ids(ks) == {ks[i].keyId : i \in DOMAIN ks}
UniqueIds(ks) == \A i, j \in DOMAIN ks : ks[i].keyId = ks[j].keyId => i = j
HasPrivate(ks) == \E i \in DOMAIN ks : ks[i].isPrivate

\* Array.prototype.findIndex: the first index with the id, 0 for -1.
findIndex(ks, id) ==
    IF \E i \in DOMAIN ks : ks[i].keyId = id
    THEN CHOOSE i \in DOMAIN ks :
            ks[i].keyId = id /\ \A j \in DOMAIN ks : ks[j].keyId = id => i <= j
    ELSE 0

\* Array.prototype.filter(key => key.keyId !== id)
RECURSIVE filterOut(_, _)
filterOut(ks, id) ==
    IF ks = <<>> THEN <<>>
    ELSE IF Head(ks).keyId = id THEN filterOut(Tail(ks), id)
    ELSE <<Head(ks)>> \o filterOut(Tail(ks), id)

-----------------------------------------------------------------------------
(* src/lib/storage.ts: load and save *)

\* clearAllStoredKeys leaving the key collection in place.
MutClearAllStoredKeys_KeepKeys(v, s) == [verifier |-> Null, stored |-> s]

\* clearAllStoredKeys: both localStorage entries are removed.
clearAllStoredKeys(v, s) == [verifier |-> Null, stored |-> Null]

\* The loop body of loadKeysFromStorage rethrowing every failure of a record.
MutLoadOne_ThrowOnCorrupt(storedKey, password) ==
    IF storedKey.kind # "entry" THEN [what |-> "skip", key |-> Null]
    ELSE LET isPrivate == storedKey.type = "private"
             d == IF isPrivate THEN decryptData(storedKey.data, password)
                  ELSE Ok(storedKey.data)
         IN IF ~d.ok THEN [what |-> "throw", key |-> Null]
            ELSE LET k == IF isPrivate THEN EngineReadPrivateKey(d.data)
                          ELSE EngineReadKey(d.data)
                 IN IF ~k.ok THEN [what |-> "throw", key |-> Null]
                    ELSE [what |-> "key",
                          key |-> PGPKey(d.data, k.data)]

\* One pass of the for loop of loadKeysFromStorage: "throw", "skip" or a key.
LoadOne(storedKey, password) ==
    IF storedKey.kind # "entry" THEN [what |-> "skip", key |-> Null]
    ELSE LET isPrivate == storedKey.type = "private"
             d == IF isPrivate THEN decryptData(storedKey.data, password)
                  ELSE Ok(storedKey.data)
         IN IF ~d.ok
            THEN IF d.err = "WrongPassword"
                 THEN [what |-> "throw", key |-> Null]
                 ELSE [what |-> "skip", key |-> Null]
            ELSE LET k == IF isPrivate THEN EngineReadPrivateKey(d.data)
                          ELSE EngineReadKey(d.data)
                 IN IF ~k.ok THEN [what |-> "skip", key |-> Null]
                    ELSE [what |-> "key",
                          key |-> PGPKey(d.data, k.data)]

\* The loop of loadKeysFromStorage putting each loaded record first.
MutLoadItems_NewestFirst(items, password) ==
    LET F[n \in 0..Len(items)] ==
            IF n = 0 THEN [threw |-> FALSE, keys |-> <<>>]
            ELSE IF F[n-1].threw THEN F[n-1]
            ELSE LET r == LoadOne(items[n], password) IN
                 IF r.what = "throw" THEN [threw |-> TRUE, keys |-> <<>>]
                 ELSE IF r.what = "key"
                 THEN [threw |-> FALSE, keys |-> <<r.key>> \o F[n-1].keys]
                 ELSE F[n-1]
    IN F[Len(items)]

\* The loop of loadKeysFromStorage skipping a record on every failure.
MutLoadItems_SkipWrongPassword(items, password) ==
    LET F[n \in 0..Len(items)] ==
            IF n = 0 THEN [threw |-> FALSE, keys |-> <<>>]
            ELSE LET r == LoadOne(items[n], password) IN
                 IF r.what = "key"
                 THEN [threw |-> FALSE, keys |-> Append(F[n-1].keys, r.key)]
                 ELSE F[n-1]
    IN F[Len(items)]

\* The for loop of loadKeysFromStorage over the parsed array, in order: a
\* wrong password on any record throws and the list built so far is lost.
LoadItems(items, password) ==
    LET F[n \in 0..Len(items)] ==
            IF n = 0 THEN [threw |-> FALSE, keys |-> <<>>]
            ELSE IF F[n-1].threw THEN F[n-1]
            ELSE LET r == LoadOne(items[n], password) IN
                 IF r.what = "throw" THEN [threw |-> TRUE, keys |-> <<>>]
                 ELSE IF r.what = "key"
                 THEN [threw |-> FALSE, keys |-> Append(F[n-1].keys, r.key)]
                 ELSE F[n-1]
    IN F[Len(items)]

\* loadKeysFromStorage: "cleared" is the call of clearAllStoredKeys made when
\* the stored text is not a JSON array.
loadKeysFromStorage(s, password) ==
    IF s = Null THEN [threw |-> FALSE, keys |-> <<>>, cleared |-> FALSE]
    ELSE IF s.kind # "array"
    THEN [threw |-> FALSE, keys |-> <<>>, cleared |-> TRUE]
    ELSE LET r == LoadItems(s.items, password) IN
         [threw |-> r.threw, keys |-> r.keys, cleared |-> FALSE]

\* PrepareOne storing the armored private key as it is.
MutPrepareOne_StoresPlain(key, password, nonce, engineFails) ==
    IF key.isPrivate /\ engineFails THEN Fail("PrepareFailed")
    ELSE Ok(StoredKey(key.keyId,
                      IF key.isPrivate THEN "private" ELSE "public",
                      key.armored))

\* PrepareOne wrapping the master password in place of a private key.
MutPrepareOne_WrapsPassword(key, password, nonce, engineFails) ==
    LET d == IF key.isPrivate
             THEN encryptData([kind |-> "text", s |-> password], password,
                              nonce, engineFails)
             ELSE Ok(key.armored)
    IN IF ~d.ok THEN Fail("PrepareFailed")
       ELSE Ok(StoredKey(key.keyId,
                         IF key.isPrivate THEN "private" ELSE "public",
                         d.data))

\* The body of the for loop of saveKeysToStorage for one key.
PrepareOne(key, password, nonce, engineFails) ==
    LET d == IF key.isPrivate
             THEN encryptData(key.armored, password, nonce, engineFails)
             ELSE Ok(key.armored)
    IN IF ~d.ok THEN Fail("PrepareFailed")
       ELSE Ok(StoredKey(key.keyId,
                         IF key.isPrivate THEN "private" ELSE "public",
                         d.data))

\* saveKeysToStorage leaving out a key whose preparation fails.
MutSaveKeysToStorage_SkipFailed(ks, password, nonce, failAt, quota) ==
    LET P(i) == PrepareOne(ks[i], password, nonce, i = failAt)
        good == SelectSeq([i \in DOMAIN ks |-> P(i)], LAMBDA r : r.ok)
    IN IF quota THEN Fail("StorageFailure")
       ELSE Ok(StoredArray([i \in DOMAIN good |-> good[i].data]))

\* saveKeysToStorage: the array written to localStorage, or the throw.
\* nonce is the engine's randomness during the call; failAt is the index of
\* the key whose encryption throws (0: none); quota is setItem throwing.
saveKeysToStorage(ks, password, nonce, failAt, quota) ==
    LET P(i) == PrepareOne(ks[i], password, nonce, i = failAt) IN
    IF \E i \in DOMAIN ks : ~P(i).ok THEN Fail("PrepareFailed")
    ELSE IF quota THEN Fail("StorageFailure")
    ELSE Ok(StoredArray([i \in DOMAIN ks |-> P(i).data]))

-----------------------------------------------------------------------------
(* src/app/page.tsx: the key store of the Home component *)

\* addKey without the lookup of the id.
MutAddKey_AlwaysAppend(ks, newKey) ==
    [outcome |-> "added", keys |-> Append(ks, newKey)]

\* addKey, on the "keys" its closure holds: the outcome and updatedKeys.
addKey(ks, newKey) ==
    LET existingKeyIndex == findIndex(ks, newKey.keyId) IN
    IF existingKeyIndex # 0
    THEN IF ks[existingKeyIndex].isPrivate
         THEN [outcome |-> "KeyConflict", keys |-> ks]
         ELSE IF newKey.isPrivate
         THEN [outcome |-> "upgraded",
               keys |-> [ks EXCEPT ![existingKeyIndex] = newKey]]
         ELSE [outcome |-> "noop", keys |-> ks]
    ELSE [outcome |-> "added", keys |-> Append(ks, newKey)]

\* deleteKey, on the "keys" its closure holds.
\* An id the list does not hold returns at once: nothing is thrown, shown or
\* returned ("signal" is what the caller and the user are told).
deleteKey(ks, keyId, confirmation) ==
    IF findIndex(ks, keyId) = 0
    THEN [outcome |-> "absent", keys |-> ks, signal |-> "none"]
    ELSE IF ~confirmation
    THEN [outcome |-> "declined", keys |-> ks, signal |-> "none"]
    ELSE [outcome |-> "deleted", keys |-> filterOut(ks, keyId),
          signal |-> "deleted"]

\* The state the init effect of Home leaves after a page load.
HomeInit(v) ==
    [isAppLocked |-> hasMasterPassword(v),
     showMasterPasswordModal |-> hasMasterPassword(v)]

-----------------------------------------------------------------------------
(* Suspended handlers.  A task is a run of handleImportAttempt (one text), *)
(* of handleGenerateKey (the private then the public text) or of deleteKey,*)
(* with the "keys" and "masterPassword" its closures captured when the     *)
(* user started it.  phase "generate": awaiting openpgp.generateKey; phase *)
(* "parse": awaiting the engine's parse of Head(todo); phase "save":       *)
(* awaiting the engine inside saveKeysToStorage.  A handler of             *)
(* KeyManagement also holds the showImportPasswordModal and the            *)
(* armoredKeyToImport of its render, and sets the state of KeyManagement   *)
(* only while the component it was started in is mounted.                  *)

Task(kind, todo, snapKeys, snapPw) ==
    [kind |-> kind, phase |-> "parse", todo |-> todo,
     passphrase |-> NoPassword, genPassphrase |-> NoPassword,
     snapKeys |-> snapKeys, snapPw |-> snapPw, toSave |-> <<>>,
     mounted |-> TRUE, showImportPasswordModal |-> FALSE,
     armoredKeyToImport |-> Null]

RemoveAt(seq, i) == SubSeq(seq, 1, i - 1) \o SubSeq(seq, i + 1, Len(seq))

\* A run of handleMasterPasswordSubmit suspended at an await: in
\* setMasterPassword (phase "create"), in verifyMasterPassword (phase
\* "verify", isValid being what the call returns for the verifier it read
\* when it was called) or in loadKeysFromStorage (phase "load", loaded being
\* what the call returns for the collection it read when it was called).
SubmitTask(phase, password, isValid, loaded) ==
    [kind |-> "submit", phase |-> phase, todo |-> <<>>, snapKeys |-> <<>>,
     snapPw |-> NoPassword, toSave |-> <<>>, pw |-> password,
     isValid |-> isValid, loaded |-> loaded]

NotLoaded == [keys |-> <<>>, threw |-> FALSE, cleared |-> FALSE,
              source |-> Null]

\* Home's isLoading: set by handleMasterPasswordSubmit when it starts and
\* cleared when it ends.  While it is set Home renders the loading screen
\* only, so no control of the page can be used.
isLoading == \E i \in DOMAIN tasks : tasks[i].kind = "submit"

\* The position of the suspended handleMasterPasswordSubmit in tasks.
SubmitIndex == CHOOSE i \in DOMAIN tasks : tasks[i].kind = "submit"

\* loadKeysFromStorage awaits the engine when the collection is an array
\* with an entry of the expected shape; otherwise it returns in the step
\* it was called in.
LoadSuspends(s) ==
    /\ s # Null /\ s # Garbage
    /\ \E i \in DOMAIN s.items : s.items[i].kind = "entry"

\* The handler returns from its await on onAddKey / saveKeys: the next text
\* of handleGenerateKey is imported with the same closure, or the task ends.
Advance(ts, i) ==
    IF Len(ts[i].todo) > 1
    THEN [ts EXCEPT ![i].todo = Tail(@), ![i].phase = "parse", ![i].toSave = <<>>]
    ELSE RemoveAt(ts, i)

\* saveKeys (page.tsx) up to its first real suspension: without a master
\* password nothing is saved; a list without private keys is written in the
\* same step; otherwise the handler suspends inside encryptData.
SaveMode(updatedKeys, pw) ==
    IF pw = NoPassword THEN "none"
    ELSE IF HasPrivate(updatedKeys) THEN "async"
    ELSE "sync"

\* saveKeys writing an empty collection when saveKeysToStorage throws.
MutSaveKeys_WriteOnFailure(updatedKeys, pw, s, nonce, failAt, quota) ==
    IF pw = NoPassword THEN [stored |-> s, outcome |-> "NoMasterPassword"]
    ELSE LET w == saveKeysToStorage(updatedKeys, pw, nonce, failAt, quota) IN
         IF w.ok THEN [stored |-> w.data, outcome |-> "saved"]
         ELSE [stored |-> StoredArray(<<>>), outcome |-> w.err]

\* saveKeys (page.tsx): what localStorage holds after the call, s before it,
\* and how the call ended.  Without a master password it returns at once;
\* a throw of saveKeysToStorage is caught and reported by an alert.
saveKeys(updatedKeys, pw, s, nonce, failAt, quota) ==
    IF pw = NoPassword THEN [stored |-> s, outcome |-> "NoMasterPassword"]
    ELSE LET w == saveKeysToStorage(updatedKeys, pw, nonce, failAt, quota) IN
         IF w.ok THEN [stored |-> w.data, outcome |-> "saved"]
         ELSE [stored |-> s, outcome |-> w.err]

-----------------------------------------------------------------------------
(* Operations on a key: what Home hands to its children (page.tsx) *)

\* keys.filter(k => k.isPrivate), the privateKeys prop of the children.
privateKeys(ks) == SelectSeq(ks, LAMBDA k : k.isPrivate)

\* keys.find(k => k.keyId === keyId && k.isPrivate): the index of the first
\* private record with the id, 0 for undefined.
findPrivate(ks, keyId) ==
    LET Hit(i) == ks[i].keyId = keyId /\ ks[i].isPrivate IN
    IF \E i \in DOMAIN ks : Hit(i)
    THEN CHOOSE i \in DOMAIN ks : Hit(i) /\ \A j \in DOMAIN ks : Hit(j) => i <= j
    ELSE 0

\* getDecryptedPrivateKeyArmored ignoring the passphrase it is given.
MutGetDecrypted_AnyPassphrase(ks, keyId, passphrase) ==
    LET i == findPrivate(ks, keyId) IN
    IF i = 0 THEN Ok(Null)
    ELSE Ok(ArmoredKey(keyId, TRUE))

\* getDecryptedPrivateKeyArmored: the unlocked armored key, null (Ok(Null))
\* when keyId is not a stored private key, or the error it throws.
getDecryptedPrivateKeyArmored(ks, keyId, passphrase) ==
    LET i == findPrivate(ks, keyId) IN
    IF i = 0 THEN Ok(Null)
    ELSE IF ~ks[i].keyObject.priv THEN Ok(Null)
    ELSE IF EngineIsDecrypted(ks[i].keyObject) THEN Ok(ks[i].keyObject)
    ELSE IF passphrase = NoPassword THEN Fail("NeedsPassphrase")
    ELSE LET d == EngineDecryptKey(ks[i].keyObject, passphrase) IN
         IF d.ok THEN d
         ELSE IF d.err = "passphrase" THEN Fail("WrongPassphrase")
         ELSE Fail("DecryptKeyFailed")

-----------------------------------------------------------------------------
(* SignMessage (src/components/SignMessage.tsx) *)

NoKeyId == 0        \* the empty string of selectedPrivateKeyId, a null hint
NoData == "null"    \* dataToSign, messageToDecrypt, armoredKeyToImport: null

\* The handlers of one component that may be suspended at an await at once.
MaxPending == 2

SignModes == {"cleartext", "detached"}

SignMessageInit ==
    [plaintext |-> "", signedMessageOutput |-> Null,
     selectedPrivateKeyId |-> NoKeyId, signMode |-> "cleartext",
     isLoading |-> FALSE, error |-> "none", showKeyPasswordModal |-> FALSE,
     keyIdRequiringPassword |-> NoKeyId, dataToSign |-> NoData,
     pending |-> <<>>]

\* The effect on [privateKeys, selectedPrivateKeyId]: the selection it leaves.
SelectEffect(selected, pks) ==
    IF pks = <<>> THEN NoKeyId
    ELSE IF selected = NoKeyId \/ selected \notin Ids(pks) THEN pks[1].keyId
    ELSE selected

\* performSign: the signature it puts in signedMessageOutput, or its throw.
performSign(textToSign, unlockedPrivateKeyObject, mode, engineFails) ==
    LET s == EngineSign(textToSign, unlockedPrivateKeyObject, mode, engineFails)
    IN IF s.ok THEN s ELSE Fail("SignFailed")

\* handleSignClick up to its first await.  A key that is not decrypted
\* stages the text and opens the passphrase prompt; a decrypted key leaves
\* the handler suspended inside performSign.
handleSignClick(sm, pks) ==
    LET i == findIndex(pks, sm.selectedPrivateKeyId) IN
    IF sm.plaintext = "" THEN [sm EXCEPT !.error = "Validation"]
    ELSE IF sm.selectedPrivateKeyId = NoKeyId THEN [sm EXCEPT !.error = "Validation"]
    ELSE IF i = 0 \/ ~pks[i].keyObject.priv THEN [sm EXCEPT !.error = "Validation"]
    ELSE IF EngineIsDecrypted(pks[i].keyObject)
    THEN [sm EXCEPT !.isLoading = TRUE, !.error = "none",
                    !.signedMessageOutput = Null, !.dataToSign = NoData,
                    !.keyIdRequiringPassword = NoKeyId,
                    !.pending = Append(@,
                                    [kind |-> "click", text |-> sm.plaintext,
                                     keyObject |-> pks[i].keyObject,
                                     mode |-> sm.signMode])]
    ELSE [sm EXCEPT !.isLoading = FALSE, !.error = "none",
                    !.signedMessageOutput = Null,
                    !.dataToSign = sm.plaintext,
                    !.keyIdRequiringPassword = sm.selectedPrivateKeyId,
                    !.showKeyPasswordModal = TRUE]

\* handleSignClick after performSign returned or threw; i is the position
\* of the suspended handler among those of the component.
SignClickReturns(sm, i, engineFails) ==
    LET c == sm.pending[i]
        s == performSign(c.text, c.keyObject, c.mode, engineFails)
        done == [sm EXCEPT !.pending = RemoveAt(@, i)]
    IN IF s.ok
       THEN [done EXCEPT !.signedMessageOutput = s.data, !.error = "none",
                         !.isLoading = FALSE]
       ELSE [done EXCEPT !.error = "Failed", !.isLoading = FALSE]

\* handleKeyPasswordSubmit up to its first await: the two internal-error
\* exits, or the call of getDecryptedPrivateKeyArmored with the selection,
\* the staged text and the mode of the render the prompt was submitted in.
handleKeyPasswordSubmit(sm, ks, password) ==
    IF sm.dataToSign = NoData \/ sm.selectedPrivateKeyId = NoKeyId
    THEN [sm EXCEPT !.error = "Internal", !.showKeyPasswordModal = FALSE]
    ELSE IF findIndex(privateKeys(ks), sm.selectedPrivateKeyId) = 0
    THEN [sm EXCEPT !.error = "Internal", !.showKeyPasswordModal = FALSE]
    ELSE [sm EXCEPT !.showKeyPasswordModal = FALSE, !.isLoading = TRUE,
                    !.error = "none",
                    !.pending = Append(@,
                        [kind |-> "submit", text |-> sm.dataToSign,
                         keyId |-> sm.selectedPrivateKeyId,
                         keyObject |->
                             ks[findIndex(ks, sm.selectedPrivateKeyId)].keyObject,
                         password |-> password, mode |-> sm.signMode,
                         unlock |-> getDecryptedPrivateKeyArmored(
                                        ks, sm.selectedPrivateKeyId, password)])]

\* handleKeyPasswordSubmit after its awaits: try, catch and finally.
SignSubmitReturns(sm, i, engineFails) ==
    LET c == sm.pending[i]
        cleared == [sm EXCEPT !.dataToSign = NoData,
                              !.keyIdRequiringPassword = NoKeyId,
                              !.isLoading = FALSE,
                              !.pending = RemoveAt(@, i)]
    IN IF ~c.unlock.ok
       THEN [cleared EXCEPT !.error = IF c.unlock.err = "WrongPassphrase"
                                      THEN "WrongPassphrase" ELSE "Failed"]
       ELSE IF c.unlock.data = Null THEN [cleared EXCEPT !.error = "Failed"]
       ELSE LET k == EngineReadPrivateKey(c.unlock.data) IN
            IF ~k.ok THEN [cleared EXCEPT !.error = "Failed"]
            ELSE LET s == performSign(c.text, k.data, c.mode, engineFails) IN
                 IF s.ok
                 THEN [cleared EXCEPT !.signedMessageOutput = s.data,
                                      !.error = "none"]
                 ELSE [cleared EXCEPT !.error = "Failed"]

\* onClose of SignMessage leaving the staged text in place.
MutSignOnClose_KeepsPayload(sm) ==
    [sm EXCEPT !.showKeyPasswordModal = FALSE, !.error = "Cancelled",
               !.keyIdRequiringPassword = NoKeyId, !.isLoading = FALSE]

\* onClose of the passphrase prompt of SignMessage.
SignOnClose(sm) ==
    [sm EXCEPT !.showKeyPasswordModal = FALSE, !.error = "Cancelled",
               !.dataToSign = NoData, !.keyIdRequiringPassword = NoKeyId,
               !.isLoading = FALSE]

-----------------------------------------------------------------------------
(* DecryptMessage (src/components/DecryptMessage.tsx) *)

EmptyText == [kind |-> "text", s |-> ""]

\* An armored message encrypted to the keys whose ids are in "to".
EncryptedMessage(to, pt, signed) ==
    [kind |-> "pkmsg", to |-> to, pt |-> pt, signed |-> signed]

Recipients == {<<1>>, <<1, 2>>}

EncryptedMessages ==
    {EncryptedMessage(to, "m1", s) : to \in Recipients, s \in BOOLEAN}

Range(seq) == {seq[i] : i \in DOMAIN seq}

\* decrypt with private keys: Plaintext | NeedsPassphrase | NoMatchingKey |
\* OperationFailure.  The first outcome needs an unlocked key among the
\* recipients, the second a locked one.
EngineDecryptWithKeys(message, decryptionKeys, engineFails) ==
    LET mine == {k \in Range(decryptionKeys) : k.id \in Range(message.to)} IN
    IF \E k \in mine : ~IsProtected(k)
    THEN IF engineFails THEN Fail("decrypt") ELSE Ok(message.pt)
    ELSE IF mine # {} THEN Fail("encrypted")
    ELSE Fail("no key")

\* readMessage of a pasted text.
EngineReadEncrypted(text) ==
    IF text.kind = "pkmsg" THEN Ok(text) ELSE Fail("parse")

DecryptMessageInit ==
    [ciphertext |-> EmptyText, plaintext |-> "", signatureInfo |-> "none",
     isLoading |-> FALSE, error |-> "none", showKeyPasswordModal |-> FALSE,
     keyIdRequiringPassword |-> NoKeyId, messageToDecrypt |-> Null,
     pending |-> <<>>]

\* privateKeys.filter(pk => keyIDsInMessage.includes(pk.keyId))
potentialKeys(pks, message) ==
    SelectSeq(pks, LAMBDA pk : pk.keyId \in Range(message.to))

KeyObjects(pks) == [i \in DOMAIN pks |-> pks[i].keyObject]

\* handleDecryptAttempt after openpgp.decrypt returned or threw, up to its
\* next await: it never throws.  A signed message leaves it suspended in the
\* verification with the plaintext shown and isLoading set; an unsigned one
\* ends it and leaves isLoading as it was.
handleDecryptAttempt(dm, parsedMessage, decryptionKeysAttempt, pks, engineFails) ==
    LET d == EngineDecryptWithKeys(parsedMessage, decryptionKeysAttempt, engineFails)
        pot == potentialKeys(pks, parsedMessage)
    IN IF d.ok
       THEN IF parsedMessage.signed
            THEN [dm EXCEPT !.plaintext = d.data, !.isLoading = TRUE,
                            !.signatureInfo = "verifying"]
            ELSE [dm EXCEPT !.plaintext = d.data, !.error = "none",
                            !.signatureInfo = "unsigned"]
       ELSE IF d.err = "encrypted"
       THEN [dm EXCEPT !.error = "NeedsPassphrase",
                       !.messageToDecrypt = parsedMessage,
                       !.keyIdRequiringPassword =
                           IF Len(pot) = 1 THEN pot[1].keyId
                           ELSE parsedMessage.to[1],
                       !.showKeyPasswordModal = TRUE, !.isLoading = FALSE]
       ELSE IF d.err = "no key"
       THEN [dm EXCEPT !.error = "NoMatchingKey", !.isLoading = FALSE]
       ELSE [dm EXCEPT !.error = "Failed", !.isLoading = FALSE]

\* Whether handleDecryptAttempt goes on to verify the signatures.
DecryptVerifies(parsedMessage, decryptionKeysAttempt, engineFails) ==
    /\ EngineDecryptWithKeys(parsedMessage, decryptionKeysAttempt, engineFails).ok
    /\ parsedMessage.signed

\* handleDecryptAttempt after the verification of the first signature
\* returned or threw (engineFails): its finally, then setError(null).
DecryptVerified(dm, engineFails) ==
    [dm EXCEPT !.signatureInfo = IF engineFails THEN "error" ELSE "checked",
               !.isLoading = FALSE, !.error = "none"]

\* handleDecryptClick up to its first await (readMessage).
handleDecryptClick(dm, pks) ==
    IF dm.ciphertext = EmptyText THEN [dm EXCEPT !.error = "Validation"]
    ELSE [dm EXCEPT !.isLoading = TRUE, !.error = "none", !.plaintext = "",
                    !.signatureInfo = "none", !.messageToDecrypt = Null,
                    !.keyIdRequiringPassword = NoKeyId,
                    !.pending = Append(@,
                                    [kind |-> "click", origin |-> "click",
                                     ciphertext |-> dm.ciphertext,
                                     pks |-> pks])]

\* handleDecryptClick after readMessage returned or threw, up to the end of
\* the handler or to the verification inside handleDecryptAttempt.
DecryptClickReturns(dm, i, engineFails) ==
    LET c == dm.pending[i]
        m == EngineReadEncrypted(c.ciphertext)
        done == [dm EXCEPT !.pending = RemoveAt(@, i)]
    IN IF ~m.ok \/ c.pks = <<>>
       THEN [done EXCEPT !.error = "Failed", !.isLoading = FALSE]
       ELSE IF DecryptVerifies(m.data, KeyObjects(c.pks), engineFails)
       THEN handleDecryptAttempt([dm EXCEPT !.pending[i].kind = "verify"],
                                 m.data, KeyObjects(c.pks), c.pks, engineFails)
       ELSE handleDecryptAttempt(done, m.data, KeyObjects(c.pks), c.pks,
                                 engineFails)

\* The candidates of a suspended retry: potentialKeys of its render.
DecryptCandidates(c) == potentialKeys(privateKeys(c.keys), c.message)

\* Whether the key at position n of the candidates ends the loop: it unlocks
\* and parses, so it is handed to handleDecryptAttempt and the break is
\* reached.
DecryptRetryBreaksAt(targets, c, n) ==
    LET u == getDecryptedPrivateKeyArmored(c.keys, targets[n].keyId, c.password)
    IN u.ok /\ u.data # Null /\ EngineReadPrivateKey(u.data).ok

\* The end of handleKeyPasswordSubmit, after its loop.
DecryptRetryEnds(dm, i) ==
    [dm EXCEPT !.messageToDecrypt = Null, !.keyIdRequiringPassword = NoKeyId,
               !.isLoading = FALSE, !.pending = RemoveAt(@, i)]

\* The closure of the retry after the iteration for its candidate n.
DecryptRetryAfter(c, engineFails) ==
    LET targets == DecryptCandidates(c)
        id == targets[c.n].keyId
        handed == DecryptRetryBreaksAt(targets, c, c.n)
    IN [c EXCEPT !.n = @ + 1, !.tried = Append(@, id),
                 !.used = IF handed THEN <<id>> ELSE @,
                 !.failing = IF handed /\ engineFails THEN @ \cup {id} ELSE @]

\* The for loop going on to the next key after a decryption that succeeded.
MutDecryptRetryStep_NoBreak(dm, i, engineFails) ==
    LET c == dm.pending[i]
        pks == privateKeys(c.keys)
        targets == potentialKeys(pks, c.message)
        u == getDecryptedPrivateKeyArmored(c.keys, targets[c.n].keyId, c.password)
        next == [dm EXCEPT !.pending[i] = DecryptRetryAfter(c, engineFails)]
        goesOn(d) == IF c.n < Len(targets) THEN d ELSE DecryptRetryEnds(d, i)
    IN IF ~u.ok
       THEN goesOn([next EXCEPT !.error = IF u.err = "WrongPassphrase"
                                          THEN "WrongPassphrase" ELSE "Failed"])
       ELSE IF u.data = Null THEN goesOn(next)
       ELSE LET k == EngineReadPrivateKey(u.data) IN
            IF ~k.ok THEN goesOn([next EXCEPT !.error = "Failed"])
            ELSE IF DecryptVerifies(c.message, <<k.data>>, engineFails)
            THEN handleDecryptAttempt([next EXCEPT !.pending[i].kind = "verify"],
                                      c.message, <<k.data>>, pks, engineFails)
            ELSE goesOn(handleDecryptAttempt(next, c.message, <<k.data>>,
                                             pks, engineFails))

\* One iteration of the for loop of handleKeyPasswordSubmit over
\* potentialKeys, for the candidate n of the suspended handler i: a key that
\* does not unlock sets the error and the loop goes on; the first key that
\* unlocks is handed to handleDecryptAttempt and the loop ends.  engineFails
\* is the engine's decrypt of the message throwing with that key.
DecryptRetryStep(dm, i, engineFails) ==
    LET c == dm.pending[i]
        pks == privateKeys(c.keys)
        targets == potentialKeys(pks, c.message)
        u == getDecryptedPrivateKeyArmored(c.keys, targets[c.n].keyId, c.password)
        next == [dm EXCEPT !.pending[i] = DecryptRetryAfter(c, engineFails)]
        goesOn(d) == IF c.n < Len(targets) THEN d ELSE DecryptRetryEnds(d, i)
    IN IF ~u.ok
       THEN goesOn([next EXCEPT !.error = IF u.err = "WrongPassphrase"
                                          THEN "WrongPassphrase" ELSE "Failed"])
       ELSE IF u.data = Null THEN goesOn(next)
       ELSE LET k == EngineReadPrivateKey(u.data) IN
            IF ~k.ok THEN goesOn([next EXCEPT !.error = "Failed"])
            ELSE IF DecryptVerifies(c.message, <<k.data>>, engineFails)
            THEN handleDecryptAttempt([next EXCEPT !.pending[i].kind = "verify"],
                                      c.message, <<k.data>>, pks, engineFails)
            ELSE DecryptRetryEnds(
                     handleDecryptAttempt(next, c.message, <<k.data>>, pks,
                                          engineFails), i)

\* handleKeyPasswordSubmit of DecryptMessage up to its first await: its two
\* exits, or the start of the loop with the values of this render.
DecryptKeyPasswordSubmit(dm, ks, password) ==
    IF dm.messageToDecrypt = Null \/ dm.keyIdRequiringPassword = NoKeyId
    THEN [dm EXCEPT !.error = "Internal", !.showKeyPasswordModal = FALSE]
    ELSE IF potentialKeys(privateKeys(ks), dm.messageToDecrypt) = <<>>
    THEN [dm EXCEPT !.showKeyPasswordModal = FALSE, !.error = "Internal",
                    !.isLoading = FALSE]
    ELSE [dm EXCEPT !.showKeyPasswordModal = FALSE, !.isLoading = TRUE,
                    !.error = "none",
                    !.pending = Append(@,
                                    [kind |-> "submit", origin |-> "submit",
                                     message |-> dm.messageToDecrypt,
                                     keys |-> ks, password |-> password,
                                     n |-> 1, tried |-> <<>>, used |-> <<>>,
                                     failing |-> {}])]

\* The verification a suspended handler awaits returned: handleDecryptClick
\* ends; handleKeyPasswordSubmit breaks out of its loop and ends.
DecryptVerifyReturns(dm, i, engineFails) ==
    LET v == DecryptVerified(dm, engineFails) IN
    IF dm.pending[i].origin = "click"
    THEN [v EXCEPT !.pending = RemoveAt(@, i)]
    ELSE DecryptRetryEnds(v, i)

\* onClose of DecryptMessage starting the decryption again.
MutDecryptOnClose_Retries(dm) ==
    [dm EXCEPT !.showKeyPasswordModal = FALSE, !.error = "Cancelled",
               !.messageToDecrypt = Null, !.keyIdRequiringPassword = NoKeyId,
               !.isLoading = TRUE,
               !.pending = Append(@, [kind |-> "click", origin |-> "click",
                                      ciphertext |-> dm.ciphertext,
                                      pks |-> <<>>])]

\* onClose of the passphrase prompt of DecryptMessage.
DecryptOnClose(dm) ==
    [dm EXCEPT !.showKeyPasswordModal = FALSE, !.error = "Cancelled",
               !.messageToDecrypt = Null, !.keyIdRequiringPassword = NoKeyId,
               !.isLoading = FALSE]

-----------------------------------------------------------------------------
(* KeyManagement (src/components/KeyManagement.tsx): import and generation *)

KeyManagementInit ==
    [keyImportText |-> EmptyText, isImporting |-> FALSE, importError |-> "none",
     showImportPasswordModal |-> FALSE, armoredKeyToImport |-> Null,
     keyIdRequiringPassword |-> NoKeyId,
     showGenerateModal |-> FALSE, isGenerating |-> FALSE,
     generateError |-> "none", pending |-> <<>>]

\* A suspended handler of KeyManagement: a run of handleImportAttempt
\* (kind "import") or of handleGenerateKey (kind "generate": "todo" holds
\* the texts it has still to import), with the onAddKey (the keys and the
\* masterPassword of Home's render), showImportPasswordModal and
\* armoredKeyToImport of its closure.
ImportClosure(kind, phase, armoredKey, todo, passphrase, km, ks, pw) ==
    [kind |-> kind, phase |-> phase, armoredKey |-> armoredKey, todo |-> todo,
     passphrase |-> passphrase, genPassphrase |-> NoPassword,
     keys |-> ks, pw |-> pw, toSave |-> <<>>,
     showImportPasswordModal |-> km.showImportPasswordModal,
     armoredKeyToImport |-> km.armoredKeyToImport]

\* handleImportAttempt up to its first await (readPrivateKey).
handleImportAttempt(km, armoredKey, passphrase, ks, pw) ==
    [km EXCEPT !.isImporting = TRUE, !.importError = "none",
               !.pending = Append(@,
                   ImportClosure("import", "parse", armoredKey, <<>>,
                                 passphrase, km, ks, pw))]

\* The finally block of handleImportAttempt, of the handler with closure c.
ImportFinally(km, c) ==
    [km EXCEPT !.isImporting = FALSE,
               !.showImportPasswordModal =
                   IF c.showImportPasswordModal /\ c.armoredKeyToImport = Null
                   THEN FALSE ELSE @]

\* The key handleImportAttempt reads from the text: "staged" when a locked
\* key was read without a passphrase, the parsed key object, or the throw.
ImportRead(armoredKey, passphrase) ==
    LET p == EngineReadPrivateKeyWith(armoredKey, passphrase) IN
    IF p.ok THEN p
    ELSE IF p.err = "encrypted" /\ passphrase = NoPassword THEN Fail("staged")
    ELSE LET k == EngineReadKey(armoredKey) IN
         IF k.ok THEN k ELSE Fail("ParseError")

\* handleImportAttempt after onAddKey returned: the field and the staged
\* context are cleared, then the finally block.
ImportAdded(km, c) ==
    ImportFinally([km EXCEPT !.keyImportText = EmptyText,
                             !.armoredKeyToImport = Null,
                             !.keyIdRequiringPassword = NoKeyId], c)

\* The hint 'Unknown Key' of the prompt, next to the identifiers.
UnknownKeyHint == NumIds + 1

\* handleImportAttempt on a locked key read without a passphrase: the text
\* is staged with the key id readKey finds in it and the prompt opened,
\* then the return runs the finally block.
ImportStaged(km, c, armoredKey) ==
    LET hint == EngineReadKey(armoredKey) IN
    ImportFinally([km EXCEPT !.armoredKeyToImport = armoredKey,
                             !.keyIdRequiringPassword =
                                 IF hint.ok THEN hint.data.id
                                 ELSE UnknownKeyHint,
                             !.showImportPasswordModal = TRUE], c)

\* The catch of handleImportAttempt, then the finally block.
ImportFailed(km, c, error) ==
    ImportFinally([km EXCEPT !.importError = error], c)

\* handleImportAttempt returns to its caller.  Called from the button or
\* from the prompt the handler is over.  handleGenerateKey goes on: it
\* calls handleImportAttempt(keyPair.publicKey), which runs up to its first
\* await, or, after that import, closes its dialog and ends.
ImportReturns(km, i) ==
    LET c == km.pending[i] IN
    IF c.kind = "import" THEN [km EXCEPT !.pending = RemoveAt(@, i)]
    ELSE IF c.todo # <<>>
    THEN [km EXCEPT !.isImporting = TRUE, !.importError = "none",
                    !.pending[i] = [c EXCEPT !.phase = "parse",
                                             !.armoredKey = Head(c.todo),
                                             !.todo = Tail(c.todo),
                                             !.toSave = <<>>]]
    ELSE [km EXCEPT !.showGenerateModal = FALSE, !.isGenerating = FALSE,
                    !.pending = RemoveAt(@, i)]

\* handleImportAttempt suspended in onAddKey, whose saveKeys awaits the
\* engine with the list addKey has just set.
ImportAwaitsSave(km, i, updatedKeys) ==
    [km EXCEPT !.pending[i].phase = "save", !.pending[i].toSave = updatedKeys]

\* handleImportAttempt after its parsing awaits, when onAddKey returns in
\* the same step: "engineFails" is keyObject.getPrimaryUser() throwing.
ImportAttemptReturns(km, i, engineFails) ==
    LET c == km.pending[i]
        r == ImportRead(c.armoredKey, c.passphrase)
    IN ImportReturns(IF r.ok
                     THEN IF engineFails THEN ImportFailed(km, c, "Failed")
                          ELSE ImportAdded(km, c)
                     ELSE IF r.err = "staged"
                     THEN ImportStaged(km, c, c.armoredKey)
                     ELSE ImportFailed(km, c, "ParseError"), i)

\* handleImportWithPassword.
handleImportWithPassword(km, password, ks, pw) ==
    IF km.armoredKeyToImport # Null
    THEN handleImportAttempt([km EXCEPT !.showImportPasswordModal = FALSE],
                             km.armoredKeyToImport, password, ks, pw)
    ELSE [km EXCEPT !.importError = "Internal",
                    !.showImportPasswordModal = FALSE]

\* onClose of the passphrase prompt of KeyManagement.
ImportOnClose(km) ==
    [km EXCEPT !.showImportPasswordModal = FALSE, !.armoredKeyToImport = Null,
               !.keyIdRequiringPassword = NoKeyId, !.importError = "Cancelled"]

\* handleGenerateModalOpen and handleGenerateModalClose.
handleGenerateModalOpen(km) ==
    [km EXCEPT !.generateError = "none", !.showGenerateModal = TRUE]

handleGenerateModalClose(km) == [km EXCEPT !.showGenerateModal = FALSE]

\* The generation form as it is submitted: name and email filled in
\* ("ok"), one of them empty, or an email that is no address; passphrase
\* is the passphrase field, NoPassword when it is empty.
GenForm(check, passphrase) == [check |-> check, passphrase |-> passphrase]

\* handleGenerateKey up to its await of openpgp.generateKey, or to the
\* return of its validation.
handleGenerateKey(km, form, ks, pw) ==
    IF form.check # "ok"
    THEN [km EXCEPT !.isGenerating = FALSE, !.generateError = form.check]
    ELSE [km EXCEPT !.isGenerating = TRUE, !.generateError = "none",
                    !.pending = Append(@,
                        [ImportClosure("generate", "generate", Null, <<>>,
                                       NoPassword, km, ks, pw)
                            EXCEPT !.genPassphrase = form.passphrase])]

\* The key pair openpgp.generateKey returns for the identifier it drew: the
\* private key, locked by the passphrase of the form when one was given,
\* and the public key.
GeneratedPair(id, passphrase) ==
    <<IF passphrase = NoPassword THEN ArmoredKey(id, TRUE)
      ELSE ProtectedKey(id, passphrase),
      ArmoredKey(id, FALSE)>>

\* openpgp.generateKey returns and handleGenerateKey calls
\* handleImportAttempt(keyPair.privateKey), which runs up to its first
\* await; or generateKey throws into the catch of handleGenerateKey.
GenerateReturns(km, i, id, engineFails) ==
    LET c == km.pending[i]
        pair == GeneratedPair(id, c.genPassphrase)
    IN IF engineFails
       THEN [km EXCEPT !.generateError = "Failed", !.isGenerating = FALSE,
                       !.pending = RemoveAt(@, i)]
       ELSE [km EXCEPT !.isImporting = TRUE, !.importError = "none",
                       !.pending[i] = [c EXCEPT !.phase = "parse",
                                                !.armoredKey = pair[1],
                                                !.todo = <<pair[2]>>]]

\* What the session of Home keeps of KeyManagement: its passphrase prompt
\* and the two flags that disable its buttons.  The error texts, the
\* textarea and the generation dialog do not decide what Home does next.
PromptOf(km) ==
    [KeyManagementInit EXCEPT
        !.showImportPasswordModal = km.showImportPasswordModal,
        !.armoredKeyToImport = km.armoredKeyToImport,
        !.keyIdRequiringPassword = km.keyIdRequiringPassword,
        !.isImporting = km.isImporting,
        !.isGenerating = km.isGenerating]

\* A suspended handler of KeyManagement as a task of the session.
TaskOf(c) ==
    [Task(c.kind, IF c.phase = "generate" THEN <<>> ELSE <<c.armoredKey>>,
          c.keys, c.pw)
        EXCEPT !.phase = c.phase, !.passphrase = c.passphrase,
               !.genPassphrase = c.genPassphrase,
               !.showImportPasswordModal = c.showImportPasswordModal,
               !.armoredKeyToImport = c.armoredKeyToImport]

\* The closure of task t as KeyManagement holds it, the one suspended
\* handler of km.
Held(km, t) ==
    [km EXCEPT !.pending =
        <<[kind |-> t.kind, phase |-> t.phase,
           armoredKey |-> IF t.todo = <<>> THEN Null ELSE Head(t.todo),
           todo |-> IF t.todo = <<>> THEN <<>> ELSE Tail(t.todo),
           passphrase |-> t.passphrase, genPassphrase |-> t.genPassphrase,
           keys |-> t.snapKeys, pw |-> t.snapPw, toSave |-> t.toSave,
           showImportPasswordModal |-> t.showImportPasswordModal,
           armoredKeyToImport |-> t.armoredKeyToImport]>>]

\* The handler of task t sets the state of KeyManagement to "after": what
\* the session keeps of it, or nothing when the component the handler was
\* started in has been unmounted since (React drops the updates).
SessionPrompt(km, t, after) == IF t.mounted THEN PromptOf(after) ELSE km

\* Home renders the locked screen: KeyManagement is unmounted and the
\* handlers it started go on without a component.
Unmounted(ts) ==
    [i \in DOMAIN ts |->
        IF ts[i].kind \in {"import", "generate"}
        THEN [ts[i] EXCEPT !.mounted = FALSE,
                           !.showImportPasswordModal = FALSE,
                           !.armoredKeyToImport = Null]
        ELSE ts[i]]

\* The three components as they are mounted.
ComponentsInit ==
    /\ signMessage = SignMessageInit
    /\ decryptMessage = DecryptMessageInit
    /\ keyManagement = KeyManagementInit

-----------------------------------------------------------------------------
(* The application: actions *)

Init ==
    /\ verifier = Null
    /\ stored = Null
    /\ keys = <<>>
    /\ isAppLocked = HomeInit(Null).isAppLocked
    /\ masterPassword = NoPassword
    /\ showMasterPasswordModal = HomeInit(Null).showMasterPasswordModal
    /\ tasks = <<>>
    /\ event = [op |-> "mount"]
    /\ ComponentsInit

\* The user reloads the page: every suspended handler is gone, the React
\* state is rebuilt by the init effect from what localStorage holds.
Reload ==
    /\ keys' = <<>>
    /\ isAppLocked' = HomeInit(verifier).isAppLocked
    /\ showMasterPasswordModal' = HomeInit(verifier).showMasterPasswordModal
    /\ masterPassword' = NoPassword
    /\ tasks' = <<>>
    /\ keyManagement' = KeyManagementInit
    /\ event' = [op |-> "reload"]
    /\ UNCHANGED <<verifier, stored, signMessage, decryptMessage>>

\* The reset button of the locked screen: clearAllStoredKeys, then reload.
ResetApp ==
    /\ isAppLocked /\ ~isLoading
    /\ verifier' = clearAllStoredKeys(verifier, stored).verifier
    /\ stored' = clearAllStoredKeys(verifier, stored).stored
    /\ keys' = <<>>
    /\ isAppLocked' = HomeInit(Null).isAppLocked
    /\ showMasterPasswordModal' = HomeInit(Null).showMasterPasswordModal
    /\ masterPassword' = NoPassword
    /\ tasks' = <<>>
    /\ event' = [op |-> "reset", hadVerifier |-> hasMasterPassword(verifier),
                 hadKeys |-> stored # Null]
    /\ keyManagement' = KeyManagementInit
    /\ UNCHANGED <<signMessage, decryptMessage>>

\* The lock button of the unlocked screen.
Lock ==
    /\ ~isAppLocked /\ ~isLoading
    /\ masterPassword' = NoPassword
    /\ isAppLocked' = TRUE
    /\ showMasterPasswordModal' = TRUE
    /\ keys' = <<>>
    /\ tasks' = Unmounted(tasks)
    /\ keyManagement' = KeyManagementInit
    /\ event' = [op |-> "lock"]
    /\ UNCHANGED <<verifier, stored, signMessage, decryptMessage>>

\* handleMasterPasswordSubmit, first branch (no verifier yet), up to its
\* await of setMasterPassword.
SubmitCreate(password) ==
    /\ isAppLocked /\ showMasterPasswordModal /\ ~isLoading
    /\ ~hasMasterPassword(verifier)
    /\ tasks' = Append(tasks, SubmitTask("create", password, FALSE, NotLoaded))
    /\ event' = [op |-> "submit.start", branch |-> "create", pw |-> password]
    /\ UNCHANGED <<verifier, stored, keys, isAppLocked, masterPassword,
                   showMasterPasswordModal>>
    /\ UNCHANGED components

\* setMasterPassword returns or throws: the rest of the first branch.
SubmitCreateResolves(nonce, engineFails) ==
    /\ isLoading /\ tasks[SubmitIndex].phase = "create"
    /\ LET t == tasks[SubmitIndex]
           r == setMasterPassword(t.pw, nonce, engineFails)
       IN IF r.ok
          THEN /\ verifier' = r.data
               /\ masterPassword' = t.pw
               /\ isAppLocked' = FALSE
               /\ showMasterPasswordModal' = FALSE
               /\ keys' = <<>>
               /\ event' = [op |-> "submit", branch |-> "create", pw |-> t.pw,
                            result |-> "created"]
          ELSE /\ event' = [op |-> "submit", branch |-> "create", pw |-> t.pw,
                            result |-> "createFailed"]
               /\ UNCHANGED <<verifier, masterPassword, isAppLocked,
                              showMasterPasswordModal, keys>>
    /\ tasks' = RemoveAt(tasks, SubmitIndex)
    /\ UNCHANGED stored
    /\ UNCHANGED components

\* handleMasterPasswordSubmit, second branch, up to its await of
\* verifyMasterPassword, which has read the verifier.
SubmitVerify(password) ==
    /\ isAppLocked /\ showMasterPasswordModal /\ ~isLoading
    /\ hasMasterPassword(verifier)
    /\ tasks' = Append(tasks,
                       SubmitTask("verify", password,
                                  verifyMasterPassword(verifier, password).value,
                                  NotLoaded))
    /\ event' = [op |-> "submit.start", branch |-> "verify", pw |-> password]
    /\ UNCHANGED <<verifier, stored, keys, isAppLocked, masterPassword,
                   showMasterPasswordModal>>
    /\ UNCHANGED components

\* verifyMasterPassword returns.  A rejected password ends the handler; an
\* accepted one is kept, the session is unlocked and loadKeysFromStorage is
\* called: it reads the collection now and the handler suspends in it,
\* unless it returns at once (nothing stored, or a collection that is no
\* array, which it clears).
SubmitVerifyResolves ==
    /\ isLoading /\ tasks[SubmitIndex].phase = "verify"
    /\ LET t == tasks[SubmitIndex]
           l == loadKeysFromStorage(stored, t.pw)
       IN IF ~t.isValid
          THEN /\ event' = [op |-> "submit", branch |-> "verify", pw |-> t.pw,
                            result |-> "rejected", source |-> stored]
               /\ tasks' = RemoveAt(tasks, SubmitIndex)
               /\ UNCHANGED <<verifier, stored, keys, masterPassword,
                              isAppLocked, showMasterPasswordModal>>
          ELSE /\ masterPassword' = t.pw
               /\ isAppLocked' = FALSE
               /\ showMasterPasswordModal' = FALSE
               /\ verifier' = IF l.cleared
                              THEN clearAllStoredKeys(verifier, stored).verifier
                              ELSE verifier
               /\ stored' = IF l.cleared
                            THEN clearAllStoredKeys(verifier, stored).stored
                            ELSE stored
               /\ IF LoadSuspends(stored)
                  THEN /\ tasks' = [tasks EXCEPT
                                       ![SubmitIndex].phase = "load",
                                       ![SubmitIndex].loaded =
                                           [keys |-> l.keys, threw |-> l.threw,
                                            cleared |-> l.cleared,
                                            source |-> stored]]
                       /\ keys' = keys
                       /\ event' = [op |-> "submit.verified",
                                    branch |-> "verify",
                                    pw |-> t.pw, result |-> "verified",
                                    source |-> stored]
                  ELSE /\ tasks' = RemoveAt(tasks, SubmitIndex)
                       /\ keys' = l.keys
                       /\ event' = [op |-> "submit", branch |-> "verify",
                                    pw |-> t.pw, result |-> "unlocked",
                                    source |-> stored]
    /\ UNCHANGED components

\* loadKeysFromStorage returns or throws: the end of the second branch.
SubmitLoadResolves ==
    /\ isLoading /\ tasks[SubmitIndex].phase = "load"
    /\ LET t == tasks[SubmitIndex] IN
       IF t.loaded.threw
       THEN /\ isAppLocked' = TRUE
            /\ showMasterPasswordModal' = TRUE
            /\ keys' = keys
            /\ event' = [op |-> "submit", branch |-> "verify", pw |-> t.pw,
                         result |-> "loadFailed", source |-> t.loaded.source]
       ELSE /\ keys' = t.loaded.keys
            /\ event' = [op |-> "submit", branch |-> "verify", pw |-> t.pw,
                         result |-> "unlocked", source |-> t.loaded.source]
            /\ UNCHANGED <<isAppLocked, showMasterPasswordModal>>
    /\ tasks' = RemoveAt(tasks, SubmitIndex)
    /\ UNCHANGED <<verifier, stored, masterPassword>>
    /\ UNCHANGED components

\* The import button, enabled as its "disabled" says: handleImportClick
\* starts handleImportAttempt on the text of the field.
StartImport(text) ==
    /\ ~isAppLocked /\ ~isLoading
    /\ ~keyManagement.isImporting
    /\ Len(tasks) < MaxInFlight
    /\ LET km == handleImportAttempt(keyManagement, text, NoPassword, keys,
                                     masterPassword)
       IN /\ tasks' = Append(tasks, TaskOf(km.pending[1]))
          /\ keyManagement' = PromptOf(km)
    /\ event' = [op |-> "start"]
    /\ UNCHANGED <<verifier, stored, keys, isAppLocked, masterPassword,
                   showMasterPasswordModal, signMessage, decryptMessage>>

\* The generation dialog opened and its form submitted with a name and an
\* email address, from the button enabled as its "disabled" says:
\* handleGenerateKey, suspended in openpgp.generateKey.
StartGenerate(passphrase) ==
    /\ ~isAppLocked /\ ~isLoading
    /\ ~keyManagement.isGenerating
    /\ Len(tasks) < MaxInFlight
    /\ LET km == handleGenerateKey(keyManagement, GenForm("ok", passphrase),
                                   keys, masterPassword)
       IN /\ tasks' = Append(tasks, TaskOf(km.pending[1]))
          /\ keyManagement' = PromptOf(km)
    /\ event' = [op |-> "start"]
    /\ UNCHANGED <<verifier, stored, keys, isAppLocked, masterPassword,
                   showMasterPasswordModal, signMessage, decryptMessage>>

\* openpgp.generateKey returns a key pair with an identifier the store does
\* not hold, and handleGenerateKey calls handleImportAttempt on the private
\* key; or it throws into the catch of handleGenerateKey, which ends.
GenerateResolved(i, id, engineFails) ==
    /\ i \in DOMAIN tasks
    /\ tasks[i].phase = "generate"
    /\ id \notin Ids(keys) \cup Ids(tasks[i].snapKeys)
    /\ IF engineFails
       THEN /\ tasks' = RemoveAt(tasks, i)
            /\ event' = [op |-> "generate", outcome |-> "Failed"]
       ELSE /\ tasks' = [tasks EXCEPT
                            ![i].phase = "parse",
                            ![i].todo = GeneratedPair(id, tasks[i].genPassphrase)]
            /\ event' = [op |-> "generate", outcome |-> "generated"]
    /\ keyManagement' =
           SessionPrompt(keyManagement, tasks[i],
               GenerateReturns(Held(keyManagement, tasks[i]), 1, id, engineFails))
    /\ UNCHANGED <<verifier, stored, keys, isAppLocked, masterPassword,
                   showMasterPasswordModal, signMessage, decryptMessage>>

\* handleImportAttempt resumes with what it read from the text: a locked
\* key read without a passphrase is staged for the prompt, a text that is no
\* key ends in the catch, and a key is handed to onAddKey, which is the
\* addKey of the render the handler was started in.
TaskParsed(i, quota) ==
    /\ i \in DOMAIN tasks
    /\ tasks[i].phase = "parse"
    /\ LET t == tasks[i]
           text == Head(t.todo)
           parsed == ImportRead(text, t.passphrase)
           returned == SessionPrompt(keyManagement, t,
                           ImportAttemptReturns(Held(keyManagement, t), 1, FALSE))
       IN IF ~parsed.ok
          THEN /\ tasks' = Advance(tasks, i)
               /\ keyManagement' = returned
               /\ event' = [op |-> "import", outcome |-> parsed.err]
               /\ UNCHANGED <<keys, stored>>
          ELSE LET newKey == PGPKey(text, parsed.data)
                   r == addKey(t.snapKeys, newKey)
                   mode == SaveMode(r.keys, t.snapPw)
                   w == saveKeys(r.keys, t.snapPw, stored, 0, 0, quota)
               IN /\ event' = [op |-> "add", key |-> newKey, outcome |-> r.outcome,
                               persist |->
                                   IF r.outcome \in {"KeyConflict", "noop"}
                                   THEN "untouched"
                                   ELSE IF mode = "async" THEN "pending"
                                   ELSE w.outcome]
                  /\ IF r.outcome \in {"KeyConflict", "noop"}
                     THEN /\ tasks' = Advance(tasks, i)
                          /\ keyManagement' = returned
                          /\ UNCHANGED <<keys, stored>>
                     ELSE /\ keys' = r.keys
                          /\ IF mode = "async"
                             THEN /\ tasks' = [tasks EXCEPT
                                       ![i].phase = "save",
                                       ![i].toSave = r.keys,
                                       ![i].snapKeys =
                                           IF Len(t.todo) > 1 THEN @ ELSE <<>>]
                                  /\ stored' = stored
                                  /\ keyManagement' = keyManagement
                             ELSE /\ tasks' = Advance(tasks, i)
                                  /\ stored' = w.stored
                                  /\ keyManagement' = returned
    /\ UNCHANGED <<verifier, isAppLocked, masterPassword,
                   showMasterPasswordModal, signMessage, decryptMessage>>

\* saveKeysToStorage resumes after the engine's encryptions and writes, or
\* throws into the catch of saveKeys; onAddKey then returns to the
\* handleImportAttempt that called it.
TaskSaved(i, nonce, failAt, quota) ==
    /\ i \in DOMAIN tasks
    /\ tasks[i].phase = "save"
    /\ LET t == tasks[i]
           w == saveKeys(t.toSave, t.snapPw, stored, nonce, failAt, quota)
       IN /\ stored' = w.stored
          /\ keyManagement' =
                 IF t.kind \in {"import", "generate"}
                 THEN SessionPrompt(keyManagement, t,
                          ImportReturns(ImportAdded(Held(keyManagement, t), t), 1))
                 ELSE keyManagement
          /\ event' = [op |-> "persist", outcome |-> w.outcome,
                       resolution |-> "none"]
    /\ tasks' = Advance(tasks, i)
    /\ UNCHANGED <<verifier, keys, isAppLocked, masterPassword,
                   showMasterPasswordModal, signMessage, decryptMessage>>

\* The passphrase prompt of KeyManagement is submitted:
\* handleImportWithPassword starts handleImportAttempt on the staged text.
SubmitImportPassphrase(password) ==
    /\ ~isAppLocked /\ ~isLoading
    /\ keyManagement.showImportPasswordModal
    /\ keyManagement.armoredKeyToImport # Null => Len(tasks) < MaxInFlight
    /\ LET km == handleImportWithPassword(keyManagement, password, keys,
                                          masterPassword)
       IN /\ tasks' = IF km.pending # <<>>
                      THEN Append(tasks, TaskOf(km.pending[1]))
                      ELSE tasks
          /\ keyManagement' = PromptOf(km)
    /\ event' = [op |-> "prompt.submit"]
    /\ UNCHANGED <<verifier, stored, keys, isAppLocked, masterPassword,
                   showMasterPasswordModal, signMessage, decryptMessage>>

\* The passphrase prompt of KeyManagement is closed.
CancelImportPrompt ==
    /\ ~isAppLocked /\ ~isLoading
    /\ keyManagement.showImportPasswordModal
    /\ keyManagement' = PromptOf(ImportOnClose(keyManagement))
    /\ event' = [op |-> "prompt.cancel"]
    /\ UNCHANGED <<verifier, stored, session, signMessage, decryptMessage>>

\* The delete button of a listed key: deleteKey of the current render.
DeleteKey(keyId, confirmation, quota) ==
    /\ ~isAppLocked /\ ~isLoading
    /\ LET r == deleteKey(keys, keyId, confirmation)
           mode == SaveMode(r.keys, masterPassword)
           w == saveKeys(r.keys, masterPassword, stored, 0, 0, quota)
       IN /\ event' = [op |-> "remove", id |-> keyId, outcome |-> r.outcome,
                       signal |-> r.signal,
                       persist |-> IF r.outcome # "deleted" THEN "untouched"
                                   ELSE IF mode = "async" THEN "pending"
                                   ELSE w.outcome]
          /\ IF r.outcome # "deleted"
             THEN UNCHANGED <<keys, stored, tasks>>
             ELSE /\ keys' = r.keys
                  /\ IF mode = "async"
                     THEN /\ Len(tasks) < MaxInFlight
                          /\ tasks' = Append(tasks,
                                 [Task("delete", <<Null>>, <<>>, masterPassword)
                                     EXCEPT !.phase = "save", !.toSave = r.keys])
                          /\ stored' = stored
                     ELSE /\ tasks' = tasks
                          /\ stored' = w.stored
    /\ UNCHANGED <<verifier, isAppLocked, masterPassword,
                   showMasterPasswordModal>>
    /\ UNCHANGED components

\* The persistent medium is damaged from outside the program: the stored
\* collection is no longer a JSON array.
CorruptCollection ==
    /\ stored # Null /\ stored # Garbage
    /\ stored' = Garbage
    /\ event' = [op |-> "corrupt"]
    /\ UNCHANGED <<verifier, session>>
    /\ UNCHANGED components

\* The runs of a session.  Every action is enabled whenever the page
\* enables its control (StartImport and StartGenerate by the "disabled" of
\* their buttons, every other control always) and up to MaxInFlight handlers
\* are suspended in the engine at a time, in any order of resumption.  The
\* runs differ in what the user types and in what the engine and the medium
\* do.

\* The nonce the engine draws in a session.
SessionNonces == {0}

\* Spec: keys without a passphrase are imported, generated and deleted under
\* one master password, on an engine and a medium that do not fail and a
\* medium that nothing else writes to.  No key of these runs is locked, so
\* the passphrase prompt of KeyManagement never opens and its form has no
\* action here.
SessionPasswords == {"w1"}

SessionTexts == {ArmoredKey(1, TRUE), ArmoredKey(1, FALSE)}

SessionPassphrases == {NoPassword}

Next ==
    \/ Reload
    \/ ResetApp
    \/ Lock
    \/ \E p \in SessionPasswords : SubmitCreate(p)
    \/ \E n \in SessionNonces : SubmitCreateResolves(n, FALSE)
    \/ \E p \in SessionPasswords : SubmitVerify(p)
    \/ SubmitVerifyResolves
    \/ SubmitLoadResolves
    \/ \E text \in SessionTexts : StartImport(text)
    \/ \E p \in SessionPassphrases : StartGenerate(p)
    \/ \E i \in DOMAIN tasks, id \in KeyIds : GenerateResolved(i, id, FALSE)
    \/ \E i \in DOMAIN tasks : TaskParsed(i, FALSE)
    \/ \E i \in DOMAIN tasks, n \in SessionNonces : TaskSaved(i, n, 0, FALSE)
    \/ \E id \in KeyIds : DeleteKey(id, TRUE, FALSE)

Spec == Init /\ [][Next]_vars

\* PromptSpec: a key locked by a passphrase is imported through the prompt
\* of KeyManagement next to a public key, keys are deleted, and the engine
\* and the medium fail: the engine in setMasterPassword, in the parse of an
\* import and in an encryption of a persist, the medium in setItem.
PromptTexts == {ProtectedKey(1, "p1"), ArmoredKey(2, FALSE)}

PromptPassphrases == {"p1"}

PromptNext ==
    \/ Reload
    \/ ResetApp
    \/ Lock
    \/ \E p \in SessionPasswords : SubmitCreate(p)
    \/ \E n \in SessionNonces, f \in BOOLEAN : SubmitCreateResolves(n, f)
    \/ \E p \in SessionPasswords : SubmitVerify(p)
    \/ SubmitVerifyResolves
    \/ SubmitLoadResolves
    \/ \E text \in PromptTexts : StartImport(text)
    \/ \E i \in DOMAIN tasks, q \in BOOLEAN : TaskParsed(i, q)
    \/ \E p \in PromptPassphrases : SubmitImportPassphrase(p)
    \/ CancelImportPrompt
    \/ \E i \in DOMAIN tasks, n \in SessionNonces, fault \in 0..2 :
          TaskSaved(i, n, IF fault = 1 THEN 1 ELSE 0, fault = 2)
    \/ \E id \in KeyIds, q \in BOOLEAN : DeleteKey(id, TRUE, q)

PromptSpec == Init /\ [][PromptNext]_vars

\* UnlockSpec: the store is created and unlocked under either of two master
\* passwords, a public and a private key are imported and deleted, and the
\* persisted collection is damaged from outside the program.
UnlockTexts == {ArmoredKey(2, FALSE), ArmoredKey(1, TRUE)}

UnlockNext ==
    \/ Reload
    \/ ResetApp
    \/ Lock
    \/ \E p \in Passwords : SubmitCreate(p)
    \/ \E n \in SessionNonces, f \in BOOLEAN : SubmitCreateResolves(n, f)
    \/ \E p \in Passwords : SubmitVerify(p)
    \/ SubmitVerifyResolves
    \/ SubmitLoadResolves
    \/ \E text \in UnlockTexts : StartImport(text)
    \/ \E i \in DOMAIN tasks, q \in BOOLEAN : TaskParsed(i, q)
    \/ \E i \in DOMAIN tasks, n \in SessionNonces : TaskSaved(i, n, 0, FALSE)
    \/ \E id \in KeyIds, q \in BOOLEAN : DeleteKey(id, TRUE, q)
    \/ CorruptCollection

UnlockSpec == Init /\ [][UnlockNext]_vars

-----------------------------------------------------------------------------
(* The vault and the loader on their own: what localStorage may hold when  *)
(* a function of src/lib/storage.ts is called, and the calls.              *)

VerifierEntries ==
    {Null, Garbage}
    \cup {EngineEncrypt(pt, w, 0) : pt \in {VERIFIER_PLAINTEXT, OtherText},
                                    w \in Passwords}

StoredEntries ==
    {StoredKey(k.id, "public", k) : k \in ArmoredKeys}
    \cup {StoredKey(k.id, "private", EngineEncrypt(k, w, 0)) :
             k \in ArmoredKeys, w \in Passwords}
    \cup {StoredKey(i, t, Garbage) : i \in KeyIds, t \in {"public", "private"}}
    \cup {InvalidEntry}

SeqsUpTo(S, n) == UNION {[1..m -> S] : m \in 0..n}

StoredValues ==
    {Null, Garbage} \cup {StoredArray(items) : items \in SeqsUpTo(StoredEntries, MaxStored)}

Blobs ==
    {EngineEncrypt(pt, w, n) : pt \in {VERIFIER_PLAINTEXT, OtherText},
                               w \in Passwords, n \in Nonces}
    \cup {Garbage, OtherText}

StorageInit ==
    /\ verifier \in VerifierEntries
    /\ stored \in StoredValues
    /\ keys = <<>>
    /\ isAppLocked = TRUE
    /\ masterPassword = NoPassword
    /\ showMasterPasswordModal = TRUE
    /\ tasks = <<>>
    /\ event = [op |-> "none"]
    /\ ComponentsInit

\* setMasterPassword(password)
CallSetMasterPassword(password, nonce, engineFails) ==
    /\ LET r == setMasterPassword(password, nonce, engineFails) IN
       /\ verifier' = IF r.ok THEN r.data ELSE verifier
       /\ event' = [op |-> "create", pw |-> password, ok |-> r.ok, err |-> r.err]
    /\ UNCHANGED <<stored, session>>
    /\ UNCHANGED components

\* verifyMasterPassword(password); "afterCreate" is the password of the
\* setMasterPassword call that returned just before, if one did.
CallVerifyMasterPassword(password) ==
    /\ LET r == verifyMasterPassword(verifier, password) IN
       event' = [op |-> "verify", pw |-> password,
                 threw |-> r.threw, value |-> r.value,
                 afterCreate |-> IF event.op = "create" /\ event.ok
                                 THEN event.pw ELSE "none"]
    /\ UNCHANGED <<verifier, stored, session>>
    /\ UNCHANGED components

\* decryptData(blob, password)
CallDecryptData(blob, password) ==
    /\ event' = [op |-> "unwrap", blob |-> blob, pw |-> password,
                 result |-> decryptData(blob, password)]
    /\ UNCHANGED <<verifier, stored, session>>
    /\ UNCHANGED components

\* loadKeysFromStorage(password)
CallLoadKeys(password) ==
    /\ LET r == loadKeysFromStorage(stored, password) IN
       /\ verifier' = IF r.cleared
                      THEN clearAllStoredKeys(verifier, stored).verifier
                      ELSE verifier
       /\ stored' = IF r.cleared
                    THEN clearAllStoredKeys(verifier, stored).stored
                    ELSE stored
       /\ event' = [op |-> "load", pw |-> password,
                    threw |-> r.threw, keys |-> r.keys]
    /\ UNCHANGED session
    /\ UNCHANGED components

\* clearAllStoredKeys()
CallClearAllStoredKeys ==
    /\ verifier' = clearAllStoredKeys(verifier, stored).verifier
    /\ stored' = clearAllStoredKeys(verifier, stored).stored
    /\ event' = [op |-> "clear"]
    /\ UNCHANGED session
    /\ UNCHANGED components

\* saveKeysToStorage(ks, password)
CallSaveKeys(ks, password, nonce, failAt, quota) ==
    /\ LET w == saveKeysToStorage(ks, password, nonce, failAt, quota) IN
       /\ stored' = IF w.ok THEN w.data ELSE stored
       /\ event' = [op |-> "save", pw |-> password, failAt |-> failAt,
                    quota |-> quota, ok |-> w.ok, err |-> w.err]
    /\ UNCHANGED <<verifier, session>>
    /\ UNCHANGED components

\* The key lists saveKeysToStorage is called with: none, and a private and
\* a public key.
StorageKeyLists ==
    {<<>>, <<PGPKey(ArmoredKey(1, TRUE), ArmoredKey(1, TRUE)),
             PGPKey(ArmoredKey(2, FALSE), ArmoredKey(2, FALSE))>>}

StorageNext ==
    \/ \E p \in Passwords, n \in Nonces, f \in BOOLEAN : CallSetMasterPassword(p, n, f)
    \/ \E p \in Passwords : CallVerifyMasterPassword(p)
    \/ \E b \in Blobs, p \in Passwords : CallDecryptData(b, p)
    \/ \E p \in Passwords : CallLoadKeys(p)
    \/ \E ks \in StorageKeyLists, p \in Passwords, n \in Nonces,
          failAt \in 0..1, q \in BOOLEAN : CallSaveKeys(ks, p, n, failAt, q)
    \/ CallClearAllStoredKeys

StorageSpec == StorageInit /\ [][StorageNext]_vars

-----------------------------------------------------------------------------
(* saveKeysToStorage and loadKeysFromStorage on their own: any key list    *)
(* the Home component can hold, saved under any master password over any   *)
(* earlier content of the collection.                                      *)

\* The lists of keys with distinct ids (what addKey maintains).
\* A record is what handleImportAttempt builds: an armored key with its
\* parse, a passphrase-protected private key read without unlocking it, or
\* one read with its passphrase (the armored text stays the protected one).
HeldRecords ==
    {PGPKey(k, k) : k \in ArmoredKeys}
    \cup {PGPKey(ProtectedKey(i, p), ProtectedKey(i, p)) :
              i \in KeyIds, p \in Passphrases}
    \cup {PGPKey(ProtectedKey(i, p), ArmoredKey(i, TRUE)) :
              i \in KeyIds, p \in Passphrases}

KeyLists ==
    {ks \in SeqsUpTo(HeldRecords, NumIds) : UniqueIds(ks)}

\* The collection a call of saveKeysToStorage finds.
EarlierCollections ==
    {Null, Garbage, StoredArray(<<>>),
     StoredArray(<<StoredKey(1, "public", ArmoredKey(1, FALSE))>>)}

PersistInit ==
    /\ verifier = Null
    /\ stored \in EarlierCollections
    /\ keys \in KeyLists
    /\ masterPassword \in Passwords
    /\ isAppLocked = FALSE
    /\ showMasterPasswordModal = FALSE
    /\ tasks = <<>>
    /\ event = [op |-> "none"]
    /\ ComponentsInit

PersistNext ==
    \/ \E n \in Nonces, failAt \in 0..NumIds, q \in BOOLEAN :
           CallSaveKeys(keys, masterPassword, n, failAt, q)
    \/ \E p \in Passwords : CallLoadKeys(p)

PersistSpec == PersistInit /\ [][PersistNext]_vars

-----------------------------------------------------------------------------------------------------------------------------------------
(* SignMessage mounted in an unlocked Home.  The key list changes under it *)
(* when Home runs addKey or deleteKey (an import or a generation that      *)
(* completes, a deletion), after which the selection effect runs.          *)

UnlockedKey(i) == PGPKey(ArmoredKey(i, TRUE), ArmoredKey(i, TRUE))
LockedKey(i, p) == PGPKey(ProtectedKey(i, p), ProtectedKey(i, p))

\* A protected key imported with its passphrase: the armored text stays
\* the protected one, the key object is the unlocked key.
ImportedKey(i, p) == PGPKey(ProtectedKey(i, p), ArmoredKey(i, TRUE))

PublicRecord(i) == PGPKey(ArmoredKey(i, FALSE), ArmoredKey(i, FALSE))

\* The key lists Home can hold of the records in R.
KeyListsOf(R) == {ks \in SeqsUpTo(R, NumIds) : UniqueIds(ks)}

\* The changes of the key list that Home has not persisted: a saveKeys in
\* flight, or a collection that is not what a save of the list writes.
Unsaved ==
    IF /\ tasks = <<>>
       /\ stored = saveKeysToStorage(keys, masterPassword, 0, 0, FALSE).data
    THEN 0 ELSE 1

\* Home changes the key list under a component while at most this many of
\* its earlier changes are not persisted.
MaxUnsaved == 0

\* Home after the master password was verified and the keys were loaded.
UnlockedHome(keyLists) ==
    /\ verifier = setMasterPassword("w1", 0, FALSE).data
    /\ keys \in keyLists
    /\ stored = saveKeysToStorage(keys, "w1", 0, 0, FALSE).data
    /\ isAppLocked = FALSE
    /\ masterPassword = "w1"
    /\ showMasterPasswordModal = FALSE
    /\ tasks = <<>>

\* setKeys(updatedKeys) followed by saveKeys(updatedKeys), as addKey and
\* deleteKey end: the children re-render and the selection effect of
\* SignMessage runs; saveKeys writes at once a list without private keys
\* (quota: setItem throws) and is otherwise left suspended in the engine.
HomeApplies(updatedKeys, quota) ==
    LET mode == SaveMode(updatedKeys, masterPassword)
        w == saveKeys(updatedKeys, masterPassword, stored, 0, 0, quota)
    IN /\ Unsaved <= MaxUnsaved
       /\ keys' = updatedKeys
       /\ signMessage' = [signMessage EXCEPT !.selectedPrivateKeyId =
                              SelectEffect(@, privateKeys(updatedKeys))]
       /\ IF mode = "async"
          THEN /\ Len(tasks) < MaxInFlight
               /\ tasks' = Append(tasks,
                      [Task("save", <<Null>>, <<>>, masterPassword)
                          EXCEPT !.phase = "save", !.toSave = updatedKeys])
               /\ stored' = stored
          ELSE /\ tasks' = tasks
               /\ stored' = w.stored

\* The three components as they are mounted when Home is unlocked.
MountedInit(keyLists) ==
    /\ UnlockedHome(keyLists)
    /\ signMessage = [SignMessageInit EXCEPT !.selectedPrivateKeyId =
                          SelectEffect(NoKeyId, privateKeys(keys))]
    /\ decryptMessage = DecryptMessageInit
    /\ keyManagement = KeyManagementInit
    /\ event = [op |-> "mount"]

\* The key records of the runs of SignMessage: a key locked by "p1", the
\* public key that it upgrades, and a second key that is unlocked.
SignRecords == {LockedKey(1, "p1"), PublicRecord(1), UnlockedKey(2)}

SignInit == MountedInit(KeyListsOf(SignRecords))

HomeFrame == UNCHANGED <<verifier, isAppLocked, masterPassword,
                         showMasterPasswordModal>>

SignFrame == HomeFrame /\ UNCHANGED <<decryptMessage, keyManagement>>

\* Home's addKey of the current render called with a key that it appends or
\* that upgrades a public record; the children re-render.
HomeAddsKey(newKey, quota) ==
    /\ addKey(keys, newKey).outcome \in {"added", "upgraded"}
    /\ HomeApplies(addKey(keys, newKey).keys, quota)
    /\ event' = [op |-> "keys", resolution |-> "none"]
    /\ HomeFrame
    /\ UNCHANGED <<decryptMessage, keyManagement>>

\* Home's deleteKey of the current render, confirmed; the children
\* re-render.
HomeDeletesKey(keyId, quota) ==
    /\ keyId \in Ids(keys)
    /\ HomeApplies(deleteKey(keys, keyId, TRUE).keys, quota)
    /\ event' = [op |-> "keys", resolution |-> "none"]
    /\ HomeFrame
    /\ UNCHANGED <<decryptMessage, keyManagement>>

\* The saveKeys of such an addKey or deleteKey resumes, or throws into its
\* catch: "fault" is the engine's encryption throwing (1) or setItem
\* throwing (2).
HomeSaves(i, fault) ==
    TaskSaved(i, 0, IF fault = 1 THEN 1 ELSE 0, fault = 2)

\* The textarea, the key selector and the mode radio buttons.
SignEdit(text) ==
    /\ ~signMessage.isLoading
    /\ signMessage' = [signMessage EXCEPT !.plaintext = text]
    /\ event' = [op |-> "edit", resolution |-> "none"]
    /\ UNCHANGED <<keys, stored, tasks>> /\ SignFrame

SignSelectKey(keyId) ==
    /\ ~signMessage.isLoading
    /\ keyId \in Ids(privateKeys(keys))
    /\ signMessage' = [signMessage EXCEPT !.selectedPrivateKeyId = keyId]
    /\ event' = [op |-> "edit", resolution |-> "none"]
    /\ UNCHANGED <<keys, stored, tasks>> /\ SignFrame

SignSetMode(mode) ==
    /\ ~signMessage.isLoading
    /\ signMessage' = [signMessage EXCEPT !.signMode = mode]
    /\ event' = [op |-> "edit", resolution |-> "none"]
    /\ UNCHANGED <<keys, stored, tasks>> /\ SignFrame

\* The sign button, enabled as its "disabled" attribute says.
SignClick ==
    /\ ~signMessage.isLoading
    /\ signMessage.plaintext # ""
    /\ signMessage.selectedPrivateKeyId # NoKeyId
    /\ signMessage' = handleSignClick(signMessage, privateKeys(keys))
    /\ Len(signMessage'.pending) <= MaxPending
    /\ event' = [op |-> "sign.start",
                 resolution |-> IF signMessage'.error = "Validation"
                                THEN "Failed" ELSE "none",
                 signCalled |-> Len(signMessage'.pending)
                                    > Len(signMessage.pending),
                 after |-> signMessage.error]
    /\ UNCHANGED <<keys, stored, tasks>> /\ SignFrame

\* performSign returns to the handleSignClick suspended at position i.
SignClickResolves(i, engineFails) ==
    /\ i \in DOMAIN signMessage.pending
    /\ signMessage.pending[i].kind = "click"
    /\ signMessage' = SignClickReturns(signMessage, i, engineFails)
    /\ event' = [op |-> "sign.direct",
                 resolution |-> IF signMessage'.error = "none"
                                THEN "Succeeded" ELSE "Failed",
                 engineFails |-> engineFails,
                 call |-> signMessage.pending[i]]
    /\ UNCHANGED <<keys, stored, tasks>> /\ SignFrame

\* The form of the passphrase prompt is submitted.
SignPassphraseSubmit(password) ==
    /\ signMessage.showKeyPasswordModal
    /\ signMessage' = handleKeyPasswordSubmit(signMessage, keys, password)
    /\ Len(signMessage'.pending) <= MaxPending
    /\ event' = [op |-> "sign.submit",
                 resolution |-> IF signMessage'.error = "Internal"
                                THEN "Failed" ELSE "none"]
    /\ UNCHANGED <<keys, stored, tasks>> /\ SignFrame

\* The engine returns to the handleKeyPasswordSubmit suspended at position i.
SignSubmitResolves(i, engineFails) ==
    /\ i \in DOMAIN signMessage.pending
    /\ signMessage.pending[i].kind = "submit"
    /\ signMessage' = SignSubmitReturns(signMessage, i, engineFails)
    /\ event' = [op |-> "sign.retry",
                 resolution |-> IF signMessage'.error = "none"
                                THEN "Succeeded" ELSE "Failed",
                 engineFails |-> engineFails,
                 call |-> signMessage.pending[i]]
    /\ UNCHANGED <<keys, stored, tasks>> /\ SignFrame

\* The prompt is closed without a passphrase.
SignCancel ==
    /\ signMessage.showKeyPasswordModal
    /\ signMessage' = SignOnClose(signMessage)
    /\ event' = [op |-> "sign.cancel", resolution |-> "Cancelled"]
    /\ UNCHANGED <<keys, stored, tasks>> /\ SignFrame

SignNext ==
    \/ \E k \in SignRecords, q \in BOOLEAN : HomeAddsKey(k, q)
    \/ \E id \in KeyIds, q \in BOOLEAN : HomeDeletesKey(id, q)
    \/ \E i \in DOMAIN tasks, fault \in 0..2 : HomeSaves(i, fault)
    \/ \E t \in Plaintexts \cup {""} : SignEdit(t)
    \/ \E id \in KeyIds : SignSelectKey(id)
    \/ \E m \in SignModes : SignSetMode(m)
    \/ SignClick
    \/ \E i \in 1..MaxPending, f \in BOOLEAN : SignClickResolves(i, f)
    \/ \E p \in Passphrases : SignPassphraseSubmit(p)
    \/ \E i \in 1..MaxPending, f \in BOOLEAN : SignSubmitResolves(i, f)
    \/ SignCancel

SignSpec == SignInit /\ [][SignNext]_vars

-----------------------------------------------------------------------------
(* DecryptMessage mounted in an unlocked Home *)

\* The key records of the runs of DecryptMessage: two keys locked by
\* different passphrases.
DecryptRecords == {LockedKey(1, "p1"), LockedKey(2, "p2")}

\* The texts pasted for decryption: a signed message to both keys, an
\* unsigned one to the first key, a text that is no message, the emptied
\* field.
DecryptTexts ==
    {EncryptedMessage(<<1, 2>>, "m1", TRUE),
     EncryptedMessage(<<1>>, "m1", FALSE), Garbage, EmptyText}

DecryptInit == MountedInit(KeyListsOf(DecryptRecords))

DecryptFrame == HomeFrame /\ UNCHANGED keyManagement

\* The textarea of the armored message.
DecryptEdit(text) ==
    /\ ~decryptMessage.isLoading
    /\ decryptMessage' = [decryptMessage EXCEPT !.ciphertext = text]
    /\ event' = [op |-> "edit", resolution |-> "none"]
    /\ UNCHANGED <<keys, stored, tasks, signMessage>> /\ DecryptFrame

\* The decrypt button, enabled as its "disabled" attribute says.
DecryptClick ==
    /\ ~decryptMessage.isLoading
    /\ decryptMessage.ciphertext # EmptyText
    /\ privateKeys(keys) # <<>>
    /\ decryptMessage' = handleDecryptClick(decryptMessage, privateKeys(keys))
    /\ Len(decryptMessage'.pending) <= MaxPending
    /\ event' = [op |-> "decrypt.start", resolution |-> "none",
                 after |-> decryptMessage.error]
    /\ UNCHANGED <<keys, stored, tasks, signMessage>> /\ DecryptFrame

\* The engine returns to the handleDecryptClick suspended at position i: the
\* handler ends, or goes on to the verification of the signature.
DecryptClickResolves(i, engineFails) ==
    /\ i \in DOMAIN decryptMessage.pending
    /\ decryptMessage.pending[i].kind = "click"
    /\ decryptMessage' = DecryptClickReturns(decryptMessage, i, engineFails)
    /\ LET c == decryptMessage.pending[i]
           m == EngineReadEncrypted(c.ciphertext)
           verifies == /\ m.ok /\ c.pks # <<>>
                       /\ DecryptVerifies(m.data, KeyObjects(c.pks), engineFails)
           d == EngineDecryptWithKeys(m.data, KeyObjects(c.pks), engineFails)
       IN event' = [op |-> IF verifies THEN "decrypt.verifying"
                           ELSE "decrypt.direct",
                    resolution |->
                        IF ~m.ok \/ c.pks = <<>> THEN "Failed"
                        ELSE IF verifies THEN "none"
                        ELSE IF d.ok THEN "Succeeded"
                        ELSE IF d.err = "encrypted" THEN "none"
                        ELSE "Failed",
                    engineFails |-> engineFails,
                    call |-> c]
    /\ UNCHANGED <<keys, stored, tasks, signMessage>> /\ DecryptFrame

\* The form of the passphrase prompt is submitted.
DecryptPassphraseSubmit(password) ==
    /\ decryptMessage.showKeyPasswordModal
    /\ decryptMessage' = DecryptKeyPasswordSubmit(decryptMessage, keys, password)
    /\ Len(decryptMessage'.pending) <= MaxPending
    /\ event' = [op |-> "decrypt.submit",
                 resolution |-> IF decryptMessage'.error = "Internal"
                                THEN "Failed" ELSE "none"]
    /\ UNCHANGED <<keys, stored, tasks, signMessage>> /\ DecryptFrame

\* The engine returns to the handleKeyPasswordSubmit suspended at position i
\* in the iteration of its loop for its next candidate: the loop goes on,
\* the handler goes on to the verification of the signature, or it ends.
DecryptSubmitResolves(i, engineFails) ==
    /\ i \in DOMAIN decryptMessage.pending
    /\ decryptMessage.pending[i].kind = "submit"
    /\ decryptMessage' = DecryptRetryStep(decryptMessage, i, engineFails)
    /\ LET c == decryptMessage.pending[i]
           after == DecryptRetryAfter(c, engineFails)
           ended == Len(decryptMessage'.pending) < Len(decryptMessage.pending)
           verifying == ~ended /\ decryptMessage'.pending[i].kind = "verify"
       IN event' = [op |-> IF ended THEN "decrypt.retry"
                           ELSE IF verifying THEN "decrypt.verifying"
                           ELSE "decrypt.candidate",
                    resolution |->
                        IF ~ended THEN "none"
                        ELSE IF after.used # <<>> /\ after.used[1] \notin after.failing
                        THEN "Succeeded" ELSE "Failed",
                    engineFails |-> engineFails,
                    call |-> after,
                    candidates |-> DecryptCandidates(c),
                    tried |-> after.tried, used |-> after.used,
                    failing |-> after.failing]
    /\ UNCHANGED <<keys, stored, tasks, signMessage>> /\ DecryptFrame

\* The verification of the signature returns to the handler suspended at
\* position i, which then ends.
DecryptVerifyResolves(i, engineFails) ==
    /\ i \in DOMAIN decryptMessage.pending
    /\ decryptMessage.pending[i].kind = "verify"
    /\ decryptMessage' = DecryptVerifyReturns(decryptMessage, i, engineFails)
    /\ LET c == decryptMessage.pending[i] IN
       event' = IF c.origin = "click"
                THEN [op |-> "decrypt.direct", resolution |-> "Succeeded",
                      engineFails |-> engineFails, call |-> c]
                ELSE [op |-> "decrypt.retry", resolution |-> "Succeeded",
                      engineFails |-> engineFails, call |-> c,
                      candidates |-> DecryptCandidates(c),
                      tried |-> c.tried, used |-> c.used,
                      failing |-> c.failing]
    /\ UNCHANGED <<keys, stored, tasks, signMessage>> /\ DecryptFrame

\* The prompt is closed without a passphrase.
DecryptCancel ==
    /\ decryptMessage.showKeyPasswordModal
    /\ decryptMessage' = DecryptOnClose(decryptMessage)
    /\ event' = [op |-> "decrypt.cancel", resolution |-> "Cancelled"]
    /\ UNCHANGED <<keys, stored, tasks, signMessage>> /\ DecryptFrame

DecryptNext ==
    \/ \E k \in DecryptRecords, q \in BOOLEAN : HomeAddsKey(k, q)
    \/ \E id \in KeyIds, q \in BOOLEAN : HomeDeletesKey(id, q)
    \/ \E i \in DOMAIN tasks, fault \in 0..2 : HomeSaves(i, fault)
    \/ \E t \in DecryptTexts : DecryptEdit(t)
    \/ DecryptClick
    \/ \E i \in 1..MaxPending, f \in BOOLEAN : DecryptClickResolves(i, f)
    \/ \E p \in Passphrases : DecryptPassphraseSubmit(p)
    \/ \E i \in 1..MaxPending, f \in BOOLEAN : DecryptSubmitResolves(i, f)
    \/ \E i \in 1..MaxPending, f \in BOOLEAN : DecryptVerifyResolves(i, f)
    \/ DecryptCancel

DecryptSpec == DecryptInit /\ [][DecryptNext]_vars

-----------------------------------------------------------------------------
(* KeyManagement mounted in an unlocked Home: the import of a pasted key *)

\* The text pasted for import, a key locked by "p1"; the list is empty when
\* KeyManagement is mounted.
ImportTexts == {ProtectedKey(1, "p1")}

ImportInit == MountedInit({<<>>})

ImportFrame == HomeFrame /\ UNCHANGED decryptMessage

\* The textarea of the armored key.
ImportEdit(text) ==
    /\ ~keyManagement.isImporting
    /\ keyManagement' = [keyManagement EXCEPT !.keyImportText = text]
    /\ event' = [op |-> "edit", resolution |-> "none"]
    /\ UNCHANGED <<keys, stored, tasks, signMessage>> /\ ImportFrame

\* handleImportClick, from the button enabled as its "disabled" says.
ImportClick ==
    /\ ~keyManagement.isImporting
    /\ keyManagement.keyImportText # EmptyText
    /\ Len(keyManagement.pending) < MaxPending
    /\ keyManagement' = handleImportAttempt(keyManagement,
                            keyManagement.keyImportText, NoPassword, keys,
                            masterPassword)
    /\ event' = [op |-> "import.start", resolution |-> "none"]
    /\ UNCHANGED <<keys, stored, tasks, signMessage>> /\ ImportFrame

\* handleImportAttempt resumes; a key that was read is handed to onAddKey,
\* the addKey of the render the attempt was started in, which sets the key
\* list and calls saveKeys.  The handler goes on when saveKeys writes in the
\* same step (quota: setItem throws) and is otherwise left suspended in it.
ImportAttemptResolves(i, engineFails, quota) ==
    /\ i \in DOMAIN keyManagement.pending
    /\ keyManagement.pending[i].phase = "parse"
    /\ LET c == keyManagement.pending[i]
           r == ImportRead(c.armoredKey, c.passphrase)
           a == addKey(c.keys, PGPKey(c.armoredKey, r.data))
           adds == r.ok /\ ~engineFails /\ a.outcome \in {"added", "upgraded"}
           mode == SaveMode(a.keys, c.pw)
           w == saveKeys(a.keys, c.pw, stored, 0, 0, quota)
       IN /\ IF adds
             THEN /\ keys' = a.keys
                  /\ signMessage' = [signMessage EXCEPT !.selectedPrivateKeyId =
                                         SelectEffect(@, privateKeys(a.keys))]
                  /\ IF mode = "async"
                     THEN /\ keyManagement' =
                                 ImportAwaitsSave(keyManagement, i, a.keys)
                          /\ stored' = stored
                     ELSE /\ keyManagement' =
                                 ImportReturns(ImportAdded(keyManagement, c), i)
                          /\ stored' = w.stored
             ELSE /\ keyManagement' =
                         ImportAttemptReturns(keyManagement, i, engineFails)
                  /\ UNCHANGED <<keys, stored, signMessage>>
          /\ event' = [op |-> IF adds /\ mode = "async" THEN "import.added"
                              ELSE "import.attempt",
                       prompted |-> c.passphrase # NoPassword,
                       engineFails |-> engineFails,
                       resolution |->
                           IF adds /\ mode = "async" THEN "none"
                           ELSE IF r.ok /\ ~engineFails
                           THEN IF a.outcome = "KeyConflict" THEN "Failed"
                                ELSE "Succeeded"
                           ELSE IF ~r.ok /\ r.err = "staged" THEN "none"
                           ELSE "Failed"]
    /\ UNCHANGED tasks /\ ImportFrame

\* The saveKeys inside onAddKey resumes after the engine's encryptions and
\* writes, or throws into its catch; onAddKey returns and handleImportAttempt
\* goes on to its end.
ImportSaveResolves(i, nonce, failAt, quota) ==
    /\ i \in DOMAIN keyManagement.pending
    /\ keyManagement.pending[i].phase = "save"
    /\ LET c == keyManagement.pending[i]
           w == saveKeys(c.toSave, c.pw, stored, nonce, failAt, quota)
       IN /\ stored' = w.stored
          /\ event' = [op |-> "import.attempt",
                       prompted |-> c.passphrase # NoPassword,
                       engineFails |-> FALSE,
                       persist |-> w.outcome,
                       resolution |-> "Succeeded"]
    /\ keyManagement' =
           ImportReturns(ImportAdded(keyManagement, keyManagement.pending[i]), i)
    /\ UNCHANGED <<keys, tasks, signMessage>> /\ ImportFrame

\* The form of the passphrase prompt is submitted.
ImportPassphraseSubmit(password) ==
    /\ keyManagement.showImportPasswordModal
    /\ keyManagement' = handleImportWithPassword(keyManagement, password, keys,
                                                  masterPassword)
    /\ Len(keyManagement'.pending) <= MaxPending
    /\ event' = [op |-> "import.submit", prompted |-> TRUE,
                 resolution |-> IF keyManagement'.importError = "Internal"
                                THEN "Failed" ELSE "none"]
    /\ UNCHANGED <<keys, stored, tasks, signMessage>> /\ ImportFrame

\* The prompt is closed without a passphrase.
ImportCancel ==
    /\ keyManagement.showImportPasswordModal
    /\ keyManagement' = ImportOnClose(keyManagement)
    /\ event' = [op |-> "import.cancel", prompted |-> TRUE,
                 resolution |-> "Cancelled"]
    /\ UNCHANGED <<keys, stored, tasks, signMessage>> /\ ImportFrame

\* The button that opens the generation dialog, and the controls that
\* close it (its backdrop and its close button).
GenerateOpen ==
    /\ keyManagement' = handleGenerateModalOpen(keyManagement)
    /\ event' = [op |-> "generate.open", prompted |-> FALSE,
                 resolution |-> "none"]
    /\ UNCHANGED <<keys, stored, tasks, signMessage>> /\ ImportFrame

GenerateClose ==
    /\ keyManagement.showGenerateModal
    /\ keyManagement' = handleGenerateModalClose(keyManagement)
    /\ event' = [op |-> "generate.close", prompted |-> FALSE,
                 resolution |-> "none"]
    /\ UNCHANGED <<keys, stored, tasks, signMessage>> /\ ImportFrame

\* The form of the generation dialog is submitted, from the button enabled
\* as its "disabled" says.
GenerateSubmit(form) ==
    /\ keyManagement.showGenerateModal
    /\ ~keyManagement.isGenerating
    /\ Len(keyManagement.pending) < MaxPending
    /\ keyManagement' = handleGenerateKey(keyManagement, form, keys,
                                          masterPassword)
    /\ event' = [op |-> "generate.submit", prompted |-> FALSE,
                 resolution |-> "none"]
    /\ UNCHANGED <<keys, stored, tasks, signMessage>> /\ ImportFrame

\* openpgp.generateKey returns a key pair with an identifier the store does
\* not hold, or throws.
GenerateResolves(i, id, engineFails) ==
    /\ i \in DOMAIN keyManagement.pending
    /\ keyManagement.pending[i].phase = "generate"
    /\ id \notin Ids(keys) \cup Ids(keyManagement.pending[i].keys)
    /\ keyManagement' = GenerateReturns(keyManagement, i, id, engineFails)
    /\ event' = [op |-> "generate.resolved", prompted |-> FALSE,
                 engineFails |-> engineFails, resolution |-> "none"]
    /\ UNCHANGED <<keys, stored, tasks, signMessage>> /\ ImportFrame

\* The generation form as the user submits it, the passphrase typed into
\* the prompt, and the identifier the engine gives a generated pair.
GenForms == {GenForm("ok", NoPassword)}

ImportPassphrases == {"p1"}

GeneratedIds == {2}

\* Every control of KeyManagement and the delete buttons of the key list,
\* each enabled as the page enables it; the engine fails in the parse of an
\* import.
ImportNext ==
    \/ \E t \in ImportTexts \cup {EmptyText} : ImportEdit(t)
    \/ ImportClick
    \/ \E i \in 1..MaxPending, f \in BOOLEAN : ImportAttemptResolves(i, f, FALSE)
    \/ \E i \in 1..MaxPending : ImportSaveResolves(i, 0, 0, FALSE)
    \/ \E p \in ImportPassphrases : ImportPassphraseSubmit(p)
    \/ ImportCancel
    \/ GenerateOpen
    \/ GenerateClose
    \/ \E form \in GenForms : GenerateSubmit(form)
    \/ \E i \in DOMAIN keyManagement.pending, id \in GeneratedIds :
           GenerateResolves(i, id, FALSE)
    \/ \E id \in KeyIds : HomeDeletesKey(id, FALSE)
    \/ \E i \in DOMAIN tasks : HomeSaves(i, 0)

ImportSpec == ImportInit /\ [][ImportNext]_vars

-----------------------------------------------------------------------------
(* The three operation components side by side in an unlocked Home.  Every *)
(* control of the three is enabled as the page enables it, whatever the    *)
(* other two components are doing and whatever is suspended in the engine. *)

\* WorkflowSpec: Home holds a key locked by "p1"; the user signs with it,
\* decrypts a signed message sent to it, and imports a second key locked by
\* "p1" through the prompt of KeyManagement, which changes the key list
\* under the other two components.  No signature is started on an unlocked
\* key, so performSign is reached from the passphrase form only.
WorkflowInit == MountedInit({<<LockedKey(1, "p1")>>})

WorkflowSignKeys == {1}

WorkflowDecryptTexts == {EncryptedMessage(<<1>>, "m1", TRUE)}

WorkflowImportTexts == {ProtectedKey(2, "p1")}

WorkflowPassphrases == {"p1"}

WorkflowNext ==
    \/ \E t \in Plaintexts : SignEdit(t)
    \/ \E id \in WorkflowSignKeys : SignSelectKey(id)
    \/ SignClick
    \/ \E p \in WorkflowPassphrases : SignPassphraseSubmit(p)
    \/ \E i \in 1..MaxPending : SignSubmitResolves(i, FALSE)
    \/ SignCancel
    \/ \E t \in WorkflowDecryptTexts : DecryptEdit(t)
    \/ DecryptClick
    \/ \E i \in 1..MaxPending : DecryptClickResolves(i, FALSE)
    \/ \E p \in WorkflowPassphrases : DecryptPassphraseSubmit(p)
    \/ \E i \in 1..MaxPending : DecryptSubmitResolves(i, FALSE)
    \/ \E i \in 1..MaxPending : DecryptVerifyResolves(i, FALSE)
    \/ DecryptCancel
    \/ \E t \in WorkflowImportTexts : ImportEdit(t)
    \/ ImportClick
    \/ \E i \in 1..MaxPending : ImportAttemptResolves(i, FALSE, FALSE)
    \/ \E i \in 1..MaxPending : ImportSaveResolves(i, 0, 0, FALSE)
    \/ \E p \in WorkflowPassphrases : ImportPassphraseSubmit(p)
    \/ ImportCancel

WorkflowSpec == WorkflowInit /\ [][WorkflowNext]_vars

\* DirectSpec: Home holds an unlocked key; the user signs with the keys of
\* the list, decrypts an unsigned message sent to both keys and a signed one
\* sent to the first, and imports the first key through the prompt of
\* KeyManagement (an imported key is held unlocked).  No key of these runs
\* is locked, so the prompts of SignMessage and DecryptMessage never open
\* and their forms have no action here.
DirectInit == MountedInit({<<UnlockedKey(2)>>})

DirectDecryptTexts ==
    {EncryptedMessage(<<1, 2>>, "m1", FALSE), EncryptedMessage(<<1>>, "m1", TRUE)}

DirectImportTexts == {ProtectedKey(1, "p1")}

DirectNext ==
    \/ \E t \in Plaintexts : SignEdit(t)
    \/ \E id \in KeyIds : SignSelectKey(id)
    \/ SignClick
    \/ \E i \in 1..MaxPending, f \in BOOLEAN : SignClickResolves(i, f)
    \/ \E t \in DirectDecryptTexts : DecryptEdit(t)
    \/ DecryptClick
    \/ \E i \in 1..MaxPending, f \in BOOLEAN : DecryptClickResolves(i, f)
    \/ \E i \in 1..MaxPending, f \in BOOLEAN : DecryptVerifyResolves(i, f)
    \/ \E t \in DirectImportTexts : ImportEdit(t)
    \/ ImportClick
    \/ \E i \in 1..MaxPending, f \in BOOLEAN : ImportAttemptResolves(i, f, FALSE)
    \/ \E i \in 1..MaxPending : ImportSaveResolves(i, 0, 0, FALSE)
    \/ \E p \in WorkflowPassphrases : ImportPassphraseSubmit(p)
    \/ ImportCancel

DirectSpec == DirectInit /\ [][DirectNext]_vars

-----------------
(* Properties *)

\* The records of the in-memory collection that hold the id, as a set.
RecordsOf(ks, id) == {i \in DOMAIN ks : ks[i].keyId = id}

\* existingKey.isPrivate of addKey: the first record with the id is private.
StoredAsPrivate(ks, id) ==
    LET existingKeyIndex == findIndex(ks, id) IN
    existingKeyIndex # 0 /\ ks[existingKeyIndex].isPrivate

\* C1: in every reachable state of the application (imports, generated key
\* pairs, removals, loads, lock and unlock, in any interleaving) the
\* in-memory key collection holds at most one record per id.
C1_AtMostOneRecordPerId == UniqueIds(keys)

\* C1 witness: an add of an id the collection already held has acted while
\* another handler is suspended in the engine, and the collection holds two
\* records.
C1_Witness ==
    /\ event.op = "add"
    /\ event.outcome \in {"KeyConflict", "upgraded", "noop"}
    /\ Len(keys) = 2
    /\ tasks # <<>>

\* C2 (as claimed): an add whose id is stored as a private record is rejected
\* with KeyConflict and leaves the in-memory and the persisted collection
\* unchanged.
C2_AddOnPrivateRejected ==
    [][(event'.op = "add" /\ StoredAsPrivate(keys, event'.key.keyId))
          => (event'.outcome = "KeyConflict" /\ keys' = keys /\ stored' = stored)]_vars

\* C3 (as claimed): an add changes a record that is already stored only when
\* that record is public and the incoming one is private, and then replaces
\* it in place, every other record unchanged; public onto public changes
\* nothing and signals nothing.
C3_OnlyUpgradeOverwrites ==
    [][(event'.op = "add" /\ findIndex(keys, event'.key.keyId) # 0)
          => LET newKey == event'.key
                 idx == findIndex(keys, newKey.keyId)
             IN IF ~keys[idx].isPrivate /\ newKey.isPrivate
                THEN keys' = [keys EXCEPT ![idx] = newKey]
                ELSE /\ keys' = keys
                     /\ (~keys[idx].isPrivate => event'.outcome = "noop")]_vars

\* C4 (as claimed): once a private record of id X has been added, every add
\* for X leaves exactly one record for X in the collection, and that record
\* is private.
C4_PrivateWinsTheMerge ==
    [][(event'.op = "add"
        /\ (event'.key.isPrivate \/ StoredAsPrivate(keys, event'.key.keyId)))
          => /\ Cardinality(RecordsOf(keys', event'.key.keyId)) = 1
             /\ StoredAsPrivate(keys', event'.key.keyId)]_vars

\* C5: a verifyMasterPassword(p) made right after setMasterPassword(W) has
\* stored the verifier returns true when p = W and false for every other p.
C5_VerifierCorrect ==
    (event.op = "verify" /\ event.afterCreate # "none")
        => (~event.threw /\ (event.value <=> event.pw = event.afterCreate))

\* C5 witness: the password just set was verified and accepted.
C5_Witness ==
    /\ event.op = "verify"
    /\ event.afterCreate = event.pw
    /\ event.value

\* C6: verifyMasterPassword never throws; it returns true exactly when the
\* stored verifier is a message wrapped under the password whose plaintext
\* is the marker, and false when the verifier is absent, unreadable, wrapped
\* under another password or wraps another text.
C6_VerifyTotal ==
    event.op = "verify"
        => /\ ~event.threw
           /\ event.value <=> (/\ verifier.kind = "msg"
                               /\ verifier.pw = event.pw
                               /\ verifier.pt = VERIFIER_PLAINTEXT)

\* C6 witness: a verify of an unreadable verifier returned false.
C6_Witness ==
    /\ event.op = "verify"
    /\ verifier = Garbage
    /\ ~event.value

\* The operations C7 lists: everything the application does but the reset.
C7_Operations ==
    {"submit.start", "submit.verified", "submit", "start", "generate",
     "import", "add", "remove", "persist", "prompt.submit", "prompt.cancel",
     "lock"}

\* C7 (as claimed): once a verifier is stored, load, persist, add, remove,
\* verify, lock and unlock leave the verifier entry as it is.
C7_VerifierNeverMutated ==
    [][(hasMasterPassword(verifier) /\ event'.op \in C7_Operations)
          => verifier' = verifier]_vars

\* C8 (as claimed): setMasterPassword called while a verifier exists fails
\* and leaves the stored verifier unchanged.
C8_CreateRejectedWhenInitialized ==
    [][(event'.op = "create" /\ hasMasterPassword(verifier))
          => (~event'.ok /\ verifier' = verifier)]_vars

\* C9: decryptData of a message wrapped under W1 with a password W2 # W1
\* fails with the password error, and every other failure (a text that is no
\* message) fails with the other error.
C9_PasswordIsolation ==
    event.op = "unwrap"
        => /\ (event.blob.kind = "msg" /\ event.blob.pw # event.pw)
                 => (~event.result.ok /\ event.result.err = "WrongPassword")
           /\ event.blob.kind # "msg"
                 => (~event.result.ok /\ event.result.err = "DecryptFailed")

\* C9 witness: a wrapped message was unwrapped with another password.
C9_Witness ==
    /\ event.op = "unwrap"
    /\ event.blob.kind = "msg"
    /\ event.blob.pw # event.pw
    /\ ~event.result.ok

\* A private record of the persisted collection wrapped under another
\* password than pw.
WrappedUnderOther(s, pw) ==
    /\ s.kind = "array"
    /\ \E i \in DOMAIN s.items :
          /\ s.items[i].kind = "entry"
          /\ s.items[i].type = "private"
          /\ s.items[i].data.kind = "msg"
          /\ s.items[i].data.pw # pw

\* C10: an unlock whose load meets a private record wrapped under another
\* password than the one submitted fails as a whole: the load throws, the
\* submission ends with the session locked and neither the call of the
\* load nor its end populates the in-memory collection.
C10_LoadAbortsOnWrongPassword ==
    [][(/\ event'.op \in {"submit.verified", "submit"}
        /\ event'.branch = "verify"
        /\ event'.result # "rejected"
        /\ WrappedUnderOther(event'.source, event'.pw))
          => /\ keys' = keys
             /\ event'.op = "submit"
                   => (event'.result = "loadFailed" /\ isAppLocked')]_vars

\* C10 witness: an unlock has failed in the load, on a collection whose
\* first record is public and whose second is a private record wrapped under
\* another password.
C10_Witness ==
    /\ event.op = "submit"
    /\ event.result = "loadFailed"
    /\ WrappedUnderOther(event.source, event.pw)
    /\ Len(event.source.items) = 2
    /\ event.source.items[1].type = "public"
    /\ isAppLocked

\* A persisted record that load can hydrate under pw: a public record whose
\* data is an armored key, or a private record whose data is a private key
\* wrapped under pw.  Every other array element is corrupt.
ValidRecord(e, pw) ==
    /\ e.kind = "entry"
    /\ \/ e.type = "public" /\ e.data.kind = "key"
       \/ /\ e.type = "private"
          /\ e.data.kind = "msg"
          /\ e.data.pw = pw
          /\ e.data.pt.kind = "key"
          /\ e.data.pt.priv

\* The key text a valid persisted record carries.
TextOf(e) == IF e.type = "private" THEN e.data.pt ELSE e.data

\* C11: a load under the password of the private records returns the valid
\* records, in persisted order, and skips every corrupt one (an element that
\* is no record, unreadable data, a private record wrapping no private key);
\* it does not throw.
C11_LoadSkipsCorruptRecords ==
    (event.op = "load" /\ stored.kind = "array" /\ ~WrappedUnderOther(stored, event.pw))
        => LET valid == SelectSeq(stored.items, LAMBDA e : ValidRecord(e, event.pw))
           IN /\ ~event.threw
              /\ Len(event.keys) = Len(valid)
              /\ \A i \in DOMAIN valid :
                    /\ event.keys[i].armored = TextOf(valid[i])
                    /\ event.keys[i].keyId = TextOf(valid[i]).id

\* C11 witness: a load of a corrupted public record followed by a valid
\* private record returned one record.
C11_Witness ==
    /\ event.op = "load"
    /\ stored.kind = "array"
    /\ Len(stored.items) = 2
    /\ stored.items[1].kind = "entry"
    /\ stored.items[1].type = "public"
    /\ stored.items[1].data = Garbage
    /\ ValidRecord(stored.items[2], event.pw)
    /\ stored.items[2].type = "private"
    /\ Len(event.keys) = 1

\* C12: when the preparation of a record fails (the encryption of a private
\* key throws), saveKeysToStorage throws and the persisted collection is
\* what it was before the call.
C12_FailedPrepareWritesNothing ==
    [][(/\ event'.op = "save"
        /\ event'.failAt \in DOMAIN keys
        /\ keys[event'.failAt].isPrivate)
          => (~event'.ok /\ stored' = stored)]_vars

\* C12 witness: the second key of two failed in preparation, after a first
\* key that was prepared, over a collection that held a record.
C12_Witness ==
    /\ event.op = "save"
    /\ event.failAt = 2
    /\ Len(keys) = 2
    /\ keys[2].isPrivate
    /\ ~event.ok
    /\ stored = StoredArray(<<StoredKey(1, "public", ArmoredKey(1, FALSE))>>)

\* How a persist can fail: a record's preparation, or the write.
PersistFailures == {"PrepareFailed", "StorageFailure"}

\* C13: a persist that fails writes nothing and leaves the in-memory
\* collection as the operation that triggered it made it: memory keeps the
\* added record, or lacks the removed one, and the persisted collection is
\* the one from before the operation.
C13_FailedPersistKeepsMemory ==
    [][/\ (event'.op = "persist" /\ event'.outcome \in PersistFailures)
            => (keys' = keys /\ stored' = stored)
       /\ (event'.op = "add" /\ event'.persist \in PersistFailures)
            => (stored' = stored /\ \E i \in DOMAIN keys' : keys'[i] = event'.key)
       /\ (event'.op = "remove" /\ event'.persist \in PersistFailures)
            => (stored' = stored /\ event'.id \notin Ids(keys'))]_vars

\* C13 witness: the persist of a second key failed in an unlocked session
\* while the passphrase prompt of KeyManagement is open and another handler
\* is suspended in the engine: memory holds two keys, the persisted
\* collection one.
C13_Witness ==
    /\ event.op = "persist"
    /\ event.outcome \in PersistFailures
    /\ ~isAppLocked
    /\ Len(keys) = 2
    /\ stored.kind = "array"
    /\ Len(stored.items) = 1
    /\ keyManagement.showImportPasswordModal
    /\ tasks # <<>>

\* The persisted collection holds a record for the key, of the key's kind.
StoredHolds(s, key) ==
    /\ s.kind = "array"
    /\ \E i \in DOMAIN s.items :
          /\ s.items[i].keyId = key.keyId
          /\ s.items[i].type = (IF key.isPrivate THEN "private" ELSE "public")

\* C14 (as claimed): every add that succeeds (a new id, or an upgrade)
\* triggers a persist: the persist is in flight, or failed on the medium, or
\* has completed and the persisted collection holds the added record.
C14_AddTriggersPersist ==
    [][(event'.op = "add" /\ event'.outcome \in {"added", "upgraded"})
          => \/ event'.persist = "pending"
             \/ event'.persist \in PersistFailures
             \/ event'.persist = "saved" /\ StoredHolds(stored', event'.key)]_vars

\* C15 (as claimed): a remove of an id the store does not hold signals
\* NotFound and changes nothing; a remove of a stored id (confirmed by the
\* user) deletes that record only, keeps the order of the others and
\* triggers a persist.
C15_RemoveContract ==
    [][event'.op = "remove"
          => IF event'.id \notin Ids(keys)
             THEN event'.signal = "NotFound" /\ keys' = keys /\ stored' = stored
             ELSE event'.outcome = "deleted"
                     => /\ keys' = filterOut(keys, event'.id)
                        /\ event'.persist \notin {"untouched", "NoMasterPassword"}]_vars

\* C16: after the reset no verifier is stored, the persisted collection is
\* gone, and a load returns no record under any password.
C16_ResetClearsEverything ==
    event.op = "reset"
        => /\ ~hasMasterPassword(verifier)
           /\ stored = Null
           /\ \A p \in Passwords :
                 LET l == loadKeysFromStorage(stored, p) IN
                 ~l.threw /\ l.keys = <<>>

\* C16 witness: a reset has removed a verifier and a persisted collection.
C16_Witness ==
    /\ event.op = "reset"
    /\ event.hadVerifier
    /\ event.hadKeys

\* C17: after every resolution of the Sign workflow (Succeeded, Failed or
\* Cancelled, the internal-error exits of the passphrase submission
\* included) the pending context, dataToSign and keyIdRequiringPassword, is
\* empty.
C17_SignContextClearedOnResolution ==
    [][event'.resolution # "none" =>
           /\ signMessage'.dataToSign = NoData
           /\ signMessage'.keyIdRequiringPassword = NoKeyId]_vars

\* C20: with a locked key selected, the sign button opens the passphrase
\* prompt without calling sign; the submission of the key's passphrase ends
\* in Succeeded with the signature of the staged text, unless the engine
\* fails to sign; the submission of another passphrase ends in Failed with
\* the wrong-passphrase error and no signature.
C20_LockedKeySign ==
    [][LET sm == signMessage
           pks == privateKeys(keys)
           i == findIndex(pks, sm.selectedPrivateKeyId)
           c == event'.call
       IN /\ (event'.op = "sign.start" /\ i # 0 /\ IsProtected(pks[i].keyObject))
                 => /\ signMessage'.showKeyPasswordModal
                    /\ signMessage'.dataToSign = sm.plaintext
                    /\ signMessage'.signedMessageOutput = Null
                    /\ signMessage'.pending = sm.pending
                    /\ ~event'.signCalled
          /\ (event'.op = "sign.retry" /\ IsProtected(c.keyObject)
                 /\ c.password = c.keyObject.pass /\ ~event'.engineFails)
                 => /\ event'.resolution = "Succeeded"
                    /\ signMessage'.signedMessageOutput =
                           [kind |-> "signature", text |-> c.text,
                            signer |-> c.keyId, mode |-> c.mode]
          /\ (event'.op = "sign.retry" /\ IsProtected(c.keyObject)
                 /\ c.password # c.keyObject.pass)
                 => /\ event'.resolution = "Failed"
                    /\ signMessage'.error = "WrongPassphrase"
                    /\ signMessage'.signedMessageOutput = sm.signedMessageOutput]_vars

\* A locked key has signed after its passphrase was submitted.
C20_Witness ==
    /\ event.op = "sign.retry"
    /\ event.resolution = "Succeeded"
    /\ signMessage.signedMessageOutput # Null
    /\ \E i \in DOMAIN keys :
           /\ keys[i].keyId = signMessage.signedMessageOutput.signer
           /\ IsProtected(keys[i].keyObject)

\* C18: after every resolution of the Decrypt workflow (Succeeded, Failed or
\* Cancelled, the exit taken when no stored private key matches the
\* recipients of the message included) the pending context,
\* messageToDecrypt and keyIdRequiringPassword, is empty.
C18_DecryptContextClearedOnResolution ==
    [][event'.resolution # "none" =>
           /\ decryptMessage'.messageToDecrypt = Null
           /\ decryptMessage'.keyIdRequiringPassword = NoKeyId]_vars

\* C19: after every resolution of an import that prompted for a passphrase
\* (imported, failed after the passphrase was supplied, cancelled) the
\* pending context, armoredKeyToImport and keyIdRequiringPassword, is empty.
C19_ImportContextClearedOnResolution ==
    [][(event'.op \in {"import.attempt", "import.submit", "import.cancel"}
          /\ event'.prompted /\ event'.resolution # "none") =>
           /\ keyManagement'.armoredKeyToImport = Null
           /\ keyManagement'.keyIdRequiringPassword = NoKeyId]_vars

\* C21 (as claimed): when the chosen key is already unlocked at the start,
\* the operation is called directly and the call ends in Succeeded or
\* Failed; on this path the passphrase prompt is not shown and no pending
\* context is staged.  A start is accepted while the prompt of an earlier
\* start is open (the button tests isLoading only): handleSignClick then
\* calls performSign and clears the staged context, and the prompt stays
\* shown, as it does while and after the direct call runs.
C21_DirectPathNeverPrompts ==
    [][LET sm == signMessage
           pks == privateKeys(keys)
           i == findIndex(pks, sm.selectedPrivateKeyId)
           c == event'.call
       IN /\ (event'.op = "sign.start" /\ i # 0
                 /\ ~IsProtected(pks[i].keyObject))
                 => /\ event'.signCalled
                    /\ ~signMessage'.showKeyPasswordModal
                    /\ signMessage'.dataToSign = NoData
                    /\ signMessage'.keyIdRequiringPassword = NoKeyId
          /\ event'.op = "sign.direct"
                 => /\ event'.resolution \in {"Succeeded", "Failed"}
                    /\ ~signMessage'.showKeyPasswordModal
                    /\ signMessage'.dataToSign = NoData
                    /\ signMessage'.keyIdRequiringPassword = NoKeyId
          /\ (event'.op \in {"decrypt.direct", "decrypt.verifying"}
                 /\ c.origin = "click" /\ c.ciphertext.kind = "pkmsg"
                 /\ \E n \in DOMAIN c.pks :
                        /\ c.pks[n].keyId \in Range(c.ciphertext.to)
                        /\ ~IsProtected(c.pks[n].keyObject))
                 => /\ event'.op = "decrypt.direct"
                          => event'.resolution \in {"Succeeded", "Failed"}
                    /\ ~decryptMessage'.showKeyPasswordModal
                    /\ decryptMessage'.messageToDecrypt = Null
                    /\ decryptMessage'.keyIdRequiringPassword = NoKeyId]_vars

\* C22: closing the passphrase prompt ends the workflow in Cancelled with the
\* "cancelled, no passphrase supplied" error and calls no operation: no
\* handler is started, the outputs, the key list and the persisted
\* collection are unchanged, and the prompt is closed.
C22_CancelInvokesNothing ==
    [][/\ event'.op = "sign.cancel"
             => /\ event'.resolution = "Cancelled"
                /\ signMessage'.error = "Cancelled"
                /\ ~signMessage'.showKeyPasswordModal
                /\ signMessage'.pending = signMessage.pending
                /\ signMessage'.dataToSign = NoData
                /\ signMessage'.signedMessageOutput = signMessage.signedMessageOutput
                /\ UNCHANGED <<keys, stored>>
       /\ event'.op = "decrypt.cancel"
             => /\ event'.resolution = "Cancelled"
                /\ decryptMessage'.error = "Cancelled"
                /\ ~decryptMessage'.showKeyPasswordModal
                /\ decryptMessage'.pending = decryptMessage.pending
                /\ decryptMessage'.messageToDecrypt = Null
                /\ decryptMessage'.plaintext = decryptMessage.plaintext
                /\ UNCHANGED <<keys, stored>>
       /\ event'.op = "import.cancel"
             => /\ event'.resolution = "Cancelled"
                /\ keyManagement'.importError = "Cancelled"
                /\ ~keyManagement'.showImportPasswordModal
                /\ keyManagement'.pending = keyManagement.pending
                /\ keyManagement'.armoredKeyToImport = Null
                /\ UNCHANGED <<keys, stored>>]_vars

\* The import of a locked key was cancelled at the prompt while the prompt
\* of SignMessage is open and a handler of DecryptMessage is suspended in
\* the engine: the key is not in the list.
C22_Witness ==
    /\ event.op = "import.cancel"
    /\ keyManagement.importError = "Cancelled"
    /\ keyManagement.keyImportText = ProtectedKey(2, "p1")
    /\ keyManagement.pending = <<>>
    /\ 2 \notin Ids(keys)
    /\ signMessage.showKeyPasswordModal
    /\ decryptMessage.pending # <<>>

\* SignMessage and DecryptMessage as mounted, with the inputs of sm and dm.
FreshSign(sm) ==
    [SignMessageInit EXCEPT !.plaintext = sm.plaintext,
                            !.selectedPrivateKeyId = sm.selectedPrivateKeyId,
                            !.signMode = sm.signMode]
FreshDecrypt(dm) == [DecryptMessageInit EXCEPT !.ciphertext = dm.ciphertext]

\* C23: a cancel at the prompt leaves no staged payload, key hint, open
\* prompt or busy flag; the next start, pressed while the cancel's error is
\* still shown, does to the component exactly what a start does to one that
\* was just mounted and given the same inputs (a handler that an earlier
\* start left suspended stays suspended next to the one this start adds).
C23_FreshStartAfterCancel ==
    [][/\ (event'.op = "sign.cancel" /\ signMessage.dataToSign # NoData)
             => /\ signMessage'.dataToSign = NoData
                /\ signMessage'.keyIdRequiringPassword = NoKeyId
                /\ ~signMessage'.showKeyPasswordModal
                /\ ~signMessage'.isLoading
       /\ (event'.op = "sign.start" /\ signMessage.error = "Cancelled")
             => signMessage' =
                    [handleSignClick(FreshSign(signMessage), privateKeys(keys))
                        EXCEPT !.pending = signMessage.pending \o @]
       /\ (event'.op = "decrypt.cancel" /\ decryptMessage.messageToDecrypt # Null)
             => /\ decryptMessage'.messageToDecrypt = Null
                /\ decryptMessage'.keyIdRequiringPassword = NoKeyId
                /\ ~decryptMessage'.showKeyPasswordModal
                /\ ~decryptMessage'.isLoading
       /\ (event'.op = "decrypt.start" /\ decryptMessage.error = "Cancelled")
             => decryptMessage' =
                    [handleDecryptClick(FreshDecrypt(decryptMessage),
                                        privateKeys(keys))
                        EXCEPT !.pending = decryptMessage.pending \o @]]_vars

\* A start pressed after a cancel has opened the prompt again, in a Home
\* whose key list an import has changed since and whose DecryptMessage
\* shows its own prompt.
C23_Witness ==
    /\ event.op = "sign.start"
    /\ event.after = "Cancelled"
    /\ signMessage.showKeyPasswordModal
    /\ signMessage.dataToSign = signMessage.plaintext
    /\ Len(keys) = 2
    /\ decryptMessage.showKeyPasswordModal

\* C24: a start pressed while the workflow is attempting, awaiting the
\* passphrase or retrying is rejected: it changes neither the pending
\* context nor the prompt and starts no second operation.
C24_StartRejectedWhileBusy ==
    [][/\ (event'.op = "sign.start"
             /\ (signMessage.isLoading \/ signMessage.showKeyPasswordModal
                    \/ signMessage.pending # <<>>))
             => /\ signMessage'.dataToSign = signMessage.dataToSign
                /\ signMessage'.keyIdRequiringPassword =
                       signMessage.keyIdRequiringPassword
                /\ signMessage'.showKeyPasswordModal =
                       signMessage.showKeyPasswordModal
                /\ signMessage'.pending = signMessage.pending
       /\ (event'.op = "decrypt.start"
             /\ (decryptMessage.isLoading \/ decryptMessage.showKeyPasswordModal
                    \/ decryptMessage.pending # <<>>))
             => /\ decryptMessage'.messageToDecrypt = decryptMessage.messageToDecrypt
                /\ decryptMessage'.keyIdRequiringPassword =
                       decryptMessage.keyIdRequiringPassword
                /\ decryptMessage'.showKeyPasswordModal =
                       decryptMessage.showKeyPasswordModal
                /\ decryptMessage'.pending = decryptMessage.pending]_vars

\* C25: the key list is filled from the persisted collection only by a
\* submission whose password the verifier accepts, and then with what the
\* load under that password returns; the submission of a wrong master
\* password leaves the session locked, loads no key and keeps no password
\* in memory.
C25_HydrateOnlyAfterVerify ==
    [][(event'.op = "submit" /\ event'.branch = "verify") =>
          LET accepted == /\ verifier.kind = "msg"
                          /\ verifier.pw = event'.pw
                          /\ verifier.pt = VERIFIER_PLAINTEXT
          IN /\ keys' # keys
                   => /\ accepted
                      /\ keys' = loadKeysFromStorage(event'.source,
                                                      event'.pw).keys
             /\ ~accepted
                   => /\ isAppLocked'
                      /\ keys' = keys
                      /\ masterPassword' = NoPassword]_vars

\* A text that is a master password.
IsPasswordText(text) == text.kind = "text" /\ text.s \in Passwords

\* What setMasterPassword(pw) writes to the verifier entry, the fixed
\* marker wrapped under pw, and what saveKeysToStorage(ks, pw) writes to the
\* collection, records that are an armored public key or an armored private
\* key wrapped under pw.
VerifierWritten(v, pw) ==
    v.kind = "msg" /\ v.pt = VERIFIER_PLAINTEXT /\ v.pw = pw
RecordWritten(e, pw) ==
    /\ e.kind = "entry"
    /\ e.type \in {"public", "private"}
    /\ e.type = "public" => e.data.kind = "key"
    /\ e.type = "private" => /\ e.data.kind = "msg"
                              /\ e.data.pw = pw
                              /\ e.data.pt.kind = "key"
                              /\ ~IsPasswordText(e.data.pt)
CollectionWritten(c, pw) ==
    c.kind = "array" /\ \A i \in DOMAIN c.items : RecordWritten(c.items[i], pw)

\* C26: no value a function of storage.ts writes to localStorage contains
\* the master password.  setMasterPassword writes the fixed marker wrapped
\* under the master password it was given, or nothing when it fails;
\* saveKeysToStorage writes records that are armored public keys or armored
\* private keys wrapped under the master password it was given, or nothing
\* when it fails; every other function only removes entries.
C26_NoPasswordPersisted ==
    [][/\ event'.op = "create"
             => IF event'.ok THEN VerifierWritten(verifier', event'.pw)
                ELSE verifier' = verifier
       /\ event'.op = "save"
             => IF event'.ok THEN CollectionWritten(stored', event'.pw)
                ELSE stored' = stored
       /\ (event'.op # "create" /\ verifier' # verifier) => verifier' = Null
       /\ (event'.op # "save" /\ stored' # stored) => stored' = Null]_vars

\* A private and a public record were saved under the password whose
\* verifier a setMasterPassword of this run wrote (the entries the runs
\* start from carry nonce 0).
C26_Witness ==
    /\ event.op = "save"
    /\ event.ok
    /\ verifier = EngineEncrypt(VERIFIER_PLAINTEXT, event.pw, 1)
    /\ stored.kind = "array"
    /\ Len(stored.items) = 2
    /\ stored.items[1].type = "private"
    /\ stored.items[1].data.pw = event.pw

\* C27 (as claimed): while the application is locked the in-memory key
\* collection is empty, also when an import or add that was started before
\* the lock completes after it.  The lock button clears the collection, but
\* a handler suspended in the engine resumes after the lock and sets the
\* collection to the list of the render it was started in plus its key.
C27_LockedMeansNoKeys == isAppLocked => keys = <<>>


\* The key-generation flow ends in this step: the handler of the one
\* generate task in flight returns from its last import.
GenerateEnds ==
    /\ \E i \in DOMAIN tasks : tasks[i].kind = "generate"
    /\ \A i \in DOMAIN tasks' : tasks'[i].kind # "generate"
    /\ event'.op \in {"add", "persist"}

\* The position of the generate task in flight.
GenerateIndex == CHOOSE i \in DOMAIN tasks : tasks[i].kind = "generate"

\* The entries of a persisted collection that carry the identifier id.
EntriesOf(s, id) ==
    IF s = Null \/ s = Garbage THEN {}
    ELSE {j \in DOMAIN s.items : s.items[j].kind = "entry" /\ s.items[j].keyId = id}

\* C28 (as claimed): the key-generation flow, which imports the generated
\* private key and then the generated public key of the same id, ends with
\* exactly one record for that id in the store and in the persisted
\* collection, and that record is private.
C28_GeneratedPairKeepsPrivate ==
    [][GenerateEnds =>
          LET id == tasks[GenerateIndex].todo[1].id IN
          /\ Cardinality(RecordsOf(keys', id)) = 1
          /\ StoredAsPrivate(keys', id)
          /\ masterPassword # NoPassword =>
                /\ Cardinality(EntriesOf(stored', id)) = 1
                /\ \A j \in EntriesOf(stored', id) : stored'.items[j].type = "private"]_vars


\* The identifiers of a list of key records, in the order of the list.
IdsInOrder(ks) == [j \in DOMAIN ks |-> ks[j].keyId]

\* C29 (as claimed): in the decrypt retry, a candidate that fails for a
\* reason other than a wrong passphrase (also one that unlocks, with the
\* decrypt operation failing after it) does not end the loop: the
\* invocation ends in Failed only after every candidate has been tried.
C29_FailedOnlyAfterAllCandidates ==
    [][(event'.op = "decrypt.retry" /\ event'.resolution = "Failed")
          => event'.tried = IdsInOrder(event'.candidates)]_vars

\* The first position of the candidates whose key the passphrase of the
\* suspended retry unlocks and with which the decrypt operation succeeds,
\* 0 when there is none.
FirstSucceeding(c, failing) ==
    LET cs == DecryptCandidates(c)
        good == {n \in DOMAIN cs :
                    LET u == getDecryptedPrivateKeyArmored(c.keys, cs[n].keyId,
                                                           c.password)
                    IN u.ok /\ u.data # Null /\ cs[n].keyId \notin failing}
    IN IF good = {} THEN 0
       ELSE CHOOSE n \in good : \A k \in good : n <= k

\* C30: in the decrypt retry the candidates are tried in their listed
\* order, each by the unlock followed by the decrypt operation with the
\* key just unlocked; when the operation succeeds for a candidate the loop
\* stops there with the message's plaintext set, by way of the verification
\* of a signed message the invocation ends in Succeeded, that candidate
\* being the first one to succeed, and no later candidate is unlocked or
\* used.
C30_StopsAtFirstSuccess ==
    [][(event'.op \in {"decrypt.retry", "decrypt.verifying"}
           /\ event'.call.origin = "submit") =>
          LET c == event'.call
              ids == IdsInOrder(event'.candidates)
              n == Len(event'.tried)
              succeeds == /\ event'.used # <<>>
                          /\ event'.used[1] \notin event'.failing
          IN /\ event'.tried = SubSeq(ids, 1, n)
             /\ event'.used = <<>> \/ (n > 0 /\ event'.used = <<ids[n]>>)
             /\ succeeds => \/ event'.resolution = "Succeeded"
                            \/ /\ event'.op = "decrypt.verifying"
                               /\ c.message.signed
             /\ event'.op = "decrypt.verifying" => succeeds
             /\ (succeeds /\ c.kind = "submit") =>
                   decryptMessage'.plaintext = c.message.pt
             /\ event'.resolution = "Succeeded" =>
                   /\ n > 0 /\ event'.used = <<ids[n]>>
                   /\ n = FirstSucceeding(c, event'.failing)
                   /\ decryptMessage'.error = "none"]_vars

\* C30 witness: a retry with two candidates ended in Succeeded with the
\* first one; the second one was not tried.
C30_Witness ==
    /\ event.op = "decrypt.retry"
    /\ event.resolution = "Succeeded"
    /\ Len(event.candidates) = 2
    /\ event.tried = <<event.candidates[1].keyId>>
    /\ event.used = event.tried
    /\ decryptMessage.plaintext = "m1"

\* The errors the candidates of a retry ran into: a wrong passphrase at the
\* unlock, and any other failure (of the unlock, or of the decrypt operation
\* with the unlocked key).
RetryErrors(c, tried, used, failing) ==
    LET U(n) == getDecryptedPrivateKeyArmored(c.keys, tried[n], c.password) IN
    [wrong |-> \E n \in DOMAIN tried : ~U(n).ok /\ U(n).err = "WrongPassphrase",
     generic |-> \/ \E n \in DOMAIN tried : ~U(n).ok /\ U(n).err # "WrongPassphrase"
                 \/ used # <<>> /\ used[1] \in failing]

\* C31 (as claimed): when every candidate of a retry fails and both a
\* wrong-passphrase error and a generic error occurred among them, the
\* error reported with Failed is the wrong-passphrase error, whatever the
\* order of the two.
C31_WrongPassphrasePreferred ==
    [][(/\ event'.op = "decrypt.retry"
        /\ event'.resolution = "Failed"
        /\ LET e == RetryErrors(event'.call, event'.tried,
                                event'.used, event'.failing)
           IN e.wrong /\ e.generic)
          => decryptMessage'.error = "WrongPassphrase"]_vars

\* C32 (as claimed): the retry after the passphrase is submitted operates on
\* the pending context captured when the prompt was opened: the text signed
\* is the text staged at the click and the key used is the key that was
\* selected at the click, whatever was edited or selected while the prompt
\* was open.
C32_RetryUsesCapturedContext ==
    [][(event'.op = "sign.submit"
           /\ Len(signMessage'.pending) > Len(signMessage.pending))
          => LET c == signMessage'.pending[Len(signMessage'.pending)] IN
             /\ c.text = signMessage.dataToSign
             /\ c.keyId = signMessage.keyIdRequiringPassword]_vars

\* The persisted entries a loaded record can come from: the entries whose
\* data, unwrapped under the password when the type is private, is the
\* record's armored text.
SourcesOf(key, s, password) ==
    {j \in DOMAIN s.items :
        /\ s.items[j].kind = "entry"
        /\ IF s.items[j].type = "private"
           THEN decryptData(s.items[j].data, password) = Ok(key.armored)
           ELSE s.items[j].data = key.armored}

\* C33 (as claimed): a record returned by load has its isPrivate from the
\* persisted type of the entry it was read from: false for an entry of type
\* public and true for one of type private, also when the parsed key's
\* capability differs from the type.
C33_KindFromPersistedFlag ==
    [][(event'.op = "load" /\ ~event'.threw /\ stored # Null /\ stored # Garbage)
          => \A i \in DOMAIN event'.keys :
                \E j \in SourcesOf(event'.keys[i], stored, event'.pw) :
                    event'.keys[i].isPrivate = (stored.items[j].type = "private")]_vars

\* C34: a successful persist replaces the whole persisted collection with
\* exactly one entry per in-memory record, in the same order, with the
\* record's id and with the type the record's isPrivate gives; the data of
\* a private entry is the armored text wrapped under the master password,
\* never the armored text itself, and the data of a public entry is the
\* armored text.
C34_PersistWritesProjection ==
    [][(event'.op = "save" /\ event'.ok) =>
          /\ stored'.kind = "array"
          /\ DOMAIN stored'.items = DOMAIN keys
          /\ \A i \in DOMAIN keys :
                LET e == stored'.items[i] IN
                /\ e.kind = "entry"
                /\ e.keyId = keys[i].keyId
                /\ e.type = (IF keys[i].isPrivate THEN "private" ELSE "public")
                /\ keys[i].isPrivate =>
                      /\ e.data # keys[i].armored
                      /\ decryptData(e.data, masterPassword) = Ok(keys[i].armored)
                      /\ \A w \in Passwords \ {masterPassword} :
                            ~decryptData(e.data, w).ok
                /\ ~keys[i].isPrivate => e.data = keys[i].armored]_vars

\* C34 witness: a persist of a private record followed by a public one
\* succeeded over a collection that held one other entry.
C34_Witness ==
    /\ event.op = "save" /\ event.ok
    /\ Len(keys) = 2
    /\ keys[1].isPrivate /\ ~keys[2].isPrivate
    /\ keys[1].keyId = 2
    /\ stored.kind = "array" /\ Len(stored.items) = 2
    /\ stored.items[1].type = "private"

\* C35 (as claimed): an add that completes acts on the current collection:
\* apart from the record of the id being added, the collection after it
\* holds exactly the records it held just before, so a record removed
\* while the import was parsing does not reappear and a record added
\* meanwhile is not dropped; a remove likewise touches only its own id.
\* (Stated for operations that complete in an unlocked session.)
C35_OverlappingOpsActOnCurrent ==
    [][(event'.op \in {"add", "remove"} /\ ~isAppLocked) =>
          LET id == IF event'.op = "add" THEN event'.key.keyId ELSE event'.id
              Others(ks) == SelectSeq(ks, LAMBDA k : k.keyId # id)
          IN Others(keys') = Others(keys)]_vars

\* The ids and kinds of a key list and of a persisted collection, in order.
ProjectionOfKeys(ks) ==
    [i \in DOMAIN ks |-> <<ks[i].keyId, IF ks[i].isPrivate THEN "private" ELSE "public">>]

ProjectionOfStored(s) ==
    IF s = Null THEN <<>>
    ELSE [i \in DOMAIN s.items |-> <<s.items[i].keyId, s.items[i].type>>]

\* The step ends an add, a remove or a persist with a successful write.
WroteCollection ==
    \/ event'.op \in {"add", "remove"} /\ event'.persist = "saved"
    \/ event'.op = "persist" /\ event'.outcome = "saved"

\* C36 (as claimed): in an unlocked session that holds the master password,
\* once a persist has succeeded and no add, remove or persist is in flight
\* any more, every persist having succeeded, the persisted collection is
\* the projection of the in-memory collection: the same ids and kinds in
\* the same order, also when the persists of successive operations overlap
\* and complete out of order.
C36_QuiescentStoreMatchesMemory ==
    [][(/\ WroteCollection
        /\ tasks' = <<>>
        /\ ~isAppLocked' /\ masterPassword' # NoPassword)
          => ProjectionOfStored(stored') = ProjectionOfKeys(keys')]_vars

\* C37 (as claimed): once the engine call of a started sign or decrypt
\* invocation resolves, by success or by failure, for a signed or an
\* unsigned message, the busy flag of the component is cleared, so that a
\* later start is accepted.
C37_BusyClearedWhenEngineResolves ==
    [][/\ event'.op \in {"sign.direct", "sign.retry"} => ~signMessage'.isLoading
       /\ event'.op \in {"decrypt.direct", "decrypt.retry"}
             => ~decryptMessage'.isLoading]_vars

\* C38 (as claimed): whenever the session is unlocked a master password is
\* held in memory and it verifies against the stored verifier.
C38_UnlockedHoldsVerifiedPassword ==
    ~isAppLocked =>
        /\ masterPassword # NoPassword
        /\ verifyMasterPassword(verifier, masterPassword).value

\* C39 (as claimed): whenever the session is locked no master password is
\* held in memory: the lock button and a load that fails after a successful
\* verify both leave the in-memory master password cleared.
C39_LockedHoldsNoPassword == isAppLocked => masterPassword = NoPassword

\* C40: persist followed by load under the same master password is a round
\* trip: for every in-memory collection with unique ids, a load made right
\* after a successful persist, under the password of the persist, does not
\* throw and returns records with the same ids, the same isPrivate flags
\* and the same armored texts, in the same order.
C40_PersistLoadRoundTrip ==
    [][(/\ event.op = "save" /\ event.ok
        /\ event'.op = "load" /\ event'.pw = masterPassword)
          => /\ ~event'.threw
             /\ Len(event'.keys) = Len(keys)
             /\ \A i \in DOMAIN keys :
                   /\ event'.keys[i].keyId = keys[i].keyId
                   /\ event'.keys[i].isPrivate = keys[i].isPrivate
                   /\ event'.keys[i].armored = keys[i].armored]_vars

\* C40 witness: a load under the master password returned two records,
\* the first a passphrase-protected private key and the second a public
\* key of another id, from the collection a persist of these two wrote.
C40_Witness ==
    /\ event.op = "load" /\ event.pw = masterPassword /\ ~event.threw
    /\ Len(keys) = 2
    /\ IsProtected(keys[1].armored) /\ keys[1].isPrivate
    /\ ~keys[2].isPrivate
    /\ \E n \in Nonces :
          stored = saveKeysToStorage(keys, masterPassword, n, 0, FALSE).data
    /\ Len(event.keys) = 2
    /\ event.keys[1].armored = keys[1].armored

====
